---- MODULE Spec2Model ----
(***************************************************************************)
(* ddnsbridge4extdns: RFC2136 DNS UPDATE server that reconciles            *)
(* DNSEndpoint resources.  The model follows the request pipeline          *)
(*   dns.Server (msgAccept)  ->  Handler.ServeDNS  ->  Parser.Parse        *)
(*   ->  Client.ApplyUpdate (get / create / update / delete)               *)
(*   ->  Handler.writeResponse                                             *)
(* A Go string is a sequence of one-character strings, so that the         *)
(* suffix, trim and per-character operations of the code are computed.    *)
(***************************************************************************)
EXTENDS Integers, Sequences, FiniteSets, TLC

(***************************************************************************)
(* Bounds of the model.                                                    *)
(***************************************************************************)
MaxMsgs == 2        \* messages received in one behaviour
MaxRecords == 2     \* records in the update section of a message
MaxFaults == 1      \* store calls that fail with an API error
MaxZoneLen == 4     \* characters of a zone given to IsZoneAllowed
MaxAllowedLen == 2  \* characters of an entry of the allowed-zone list
MaxAllowed == 2     \* entries of the allowed-zone list given to IsZoneAllowed
MaxParseRecords == 2 \* records of the update section given to Parse

(***************************************************************************)
(* Go strings package.                                                     *)
(***************************************************************************)
\* F(s), with the argument s evaluated once.
Once(F(_), s) == CHOOSE r \in {F(x) : x \in {s}} : TRUE

HasSuffix(s, suffix) ==
    /\ Len(s) >= Len(suffix)
    /\ SubSeq(s, Len(s) - Len(suffix) + 1, Len(s)) = suffix

TrimSuffix(s, suffix) ==
    IF HasSuffix(s, suffix) THEN SubSeq(s, 1, Len(s) - Len(suffix)) ELSE s

\* The part of s before the first sep: strings.Split(s, sep)[0].
SplitFirst(s, sep) ==
    Once(LAMBDA x :
           IF \E i \in 1..Len(x) : x[i] = sep
           THEN SubSeq(x, 1, (CHOOSE i \in 1..Len(x) :
                                 x[i] = sep /\ \A j \in 1..(i - 1) : x[j] # sep) - 1)
           ELSE x,
         s)

UpperChars == <<"A","B","C","D","E","F","G","H","I","J","K","L","M",
                "N","O","P","Q","R","S","T","U","V","W","X","Y","Z">>
LowerChars == <<"a","b","c","d","e","f","g","h","i","j","k","l","m",
                "n","o","p","q","r","s","t","u","v","w","x","y","z">>
DigitChars == <<"0","1","2","3","4","5","6","7","8","9">>

Range(f) == {f[i] : i \in DOMAIN f}
UpperSet == Range(UpperChars)
AlnumLowerSet == Range(LowerChars) \cup Range(DigitChars)

ToLowerChar(c) ==
    IF c \in UpperSet
    THEN LowerChars[CHOOSE i \in DOMAIN UpperChars : UpperChars[i] = c]
    ELSE c

ToLower(s) == Once(LAMBDA x : [i \in 1..Len(x) |-> ToLowerChar(x[i])], s)

\* The characters of a Go string from position i on, and all of them, as one
\* TLA+ string value.
RECURSIVE StrFrom(_, _)
StrFrom(s, i) == IF i > Len(s) THEN "" ELSE s[i] \o StrFrom(s, i + 1)

Str(s) == Once(LAMBDA x : StrFrom(x, 1), s)

(***************************************************************************)
(* Wire constants of the DNS library the code refers to.                   *)
(***************************************************************************)
OpcodeQuery == 0
OpcodeStatus == 2
OpcodeNotify == 4
OpcodeUpdate == 5
ClassINET == 1
ClassCHAOS == 3
ClassNONE == 254
ClassANY == 255
TypeA == 1
TypeMX == 15
TypeAAAA == 28
RcodeSuccess == 0
RcodeFormatError == 1
RcodeServerFailure == 2
RcodeNotImplemented == 4
RcodeRefused == 5
RcodeNotAuth == 9
HmacSHA1 == "hmac-sha1."
HmacSHA256 == "hmac-sha256."
HmacSHA512 == "hmac-sha512."
HmacMD5 == "hmac-md5.sig-alg.reg.int."

(***************************************************************************)
(* Names used by the messages of the model.                                *)
(***************************************************************************)
ExCom == <<"e","x",".","c","o","m">>
ExampleCom == <<"e","x","a","m","p","l","e",".","c","o","m">>
ZoneExampleCom == ExampleCom \o <<".">>
NameRouterExampleCom == <<"r","o","u","t","e","r",".">> \o ZoneExampleCom
ZoneExample == ExCom \o <<".">>
ZoneNotAllowed == <<"n","o",".","c","o","m",".">>
NameRouter == <<"g","w",".">> \o ZoneExample
NameNas == <<"n","a","s",".">> \o ZoneExample
Sender1 == <<"1","0",".","0",".","0",".","1",":","5","3">>
Sender2 == <<"1","0",".","0",".","0",".","2",":","5","3">>
Senders == {Sender1, Sender2}
IP1 == "192.168.1.1"
IP2 == "192.168.1.2"
IP6 == "2001:db8::1"
NilIP == "nil"

(***************************************************************************)
(* Configuration (config.LoadConfig): the state after construction.        *)
(***************************************************************************)
TSIGKey == "opnsense-ddns"
TSIGSecret == "changeme"
TSIGAlgorithm == "hmac-sha256"
Namespace == "default"
AllowedZones == <<ExCom, ExampleCom>>
CustomLabels == [k \in {"env"} |-> "home"]

(***************************************************************************)
(* Config.IsZoneAllowed, for a configuration with the given allowed list.  *)
(***************************************************************************)
NormalizeZone(zone) == IF ~HasSuffix(zone, <<".">>) THEN zone \o <<".">> ELSE zone

ZoneMatchesNaive(zone, allowedZone) ==
    zone = allowedZone \/ HasSuffix(zone, allowedZone)

ZoneMatches(zone, allowedZone) ==
    zone = allowedZone \/ HasSuffix(zone, <<".">> \o allowedZone)

IsZoneAllowedIn(zone, allowed) ==
    \E i \in DOMAIN allowed :
        ZoneMatches(NormalizeZone(zone), NormalizeZone(allowed[i]))

IsZoneAllowed(zone) == IsZoneAllowedIn(zone, AllowedZones)

(***************************************************************************)
(* tsig.Validator.  A TSIG record is [name, algorithm, mac]; NoTsig is the  *)
(* result of msg.IsTsig() on a message without one.  dns.TsigVerify        *)
(* succeeds exactly for the MAC computed with the shared secret.           *)
(***************************************************************************)
NoTsig == [name |-> "", algorithm |-> "", mac |-> ""]
GoodMAC == "mac-of-secret"
BadMAC == "mac-of-other-secret"

\* getAlgorithmName without the default branch: "" for a name it does not
\* know.
getAlgorithmNameNoDefault(algorithm) ==
    CASE algorithm = "hmac-sha1" -> HmacSHA1
      [] algorithm = "hmac-sha256" -> HmacSHA256
      [] algorithm = "hmac-sha512" -> HmacSHA512
      [] algorithm = "hmac-md5" -> HmacMD5
      [] OTHER -> ""

getAlgorithmName(algorithm) ==
    CASE algorithm = "hmac-sha1" -> HmacSHA1
      [] algorithm = "hmac-sha256" -> HmacSHA256
      [] algorithm = "hmac-sha512" -> HmacSHA512
      [] algorithm = "hmac-md5" -> HmacMD5
      [] OTHER -> HmacSHA256

TsigVerify(tsig) == tsig.mac = GoodMAC

\* Validate with the algorithm compared before the key name.
ValidateAlgorithmFirst(keyName, algorithm, tsig) ==
    IF tsig = NoTsig THEN "message does not contain TSIG record"
    ELSE IF tsig.algorithm # getAlgorithmName(algorithm)
         THEN "TSIG algorithm mismatch"
    ELSE IF tsig.name # keyName \o "." /\ tsig.name # keyName
         THEN "TSIG key name mismatch"
    ELSE IF ~TsigVerify(tsig) THEN "TSIG verification failed"
    ELSE ""

\* The error Validate returns for a validator made with NewValidator(keyName,
\* secret, algorithm): "" stands for nil.
ValidateWith(keyName, algorithm, tsig) ==
    IF tsig = NoTsig THEN "message does not contain TSIG record"
    ELSE IF tsig.name # keyName \o "." /\ tsig.name # keyName
         THEN "TSIG key name mismatch"
    ELSE IF tsig.algorithm # getAlgorithmName(algorithm)
         THEN "TSIG algorithm mismatch"
    ELSE IF ~TsigVerify(tsig) THEN "TSIG verification failed"
    ELSE ""

\* Validate of the validator main makes from the configuration.
Validate(tsig) == ValidateWith(TSIGKey, TSIGAlgorithm, tsig)

(***************************************************************************)
(* update.Parser.  A resource record of the update section is              *)
(* [name, rrtype, class, ttl, gotype, ip]: gotype is the Go type of the RR *)
(* value (the type assertions on dns.A and dns.AAAA read it) and ip        *)
(* the address field of an A or AAAA value, NilIP when it has no rdata.    *)
(***************************************************************************)
\* A message is [bits, question, ns, tsig, from]: the header bits, the zone
\* section, the update section, the TSIG record and the sender's address.
\* Unpacking sets Msg.Opcode from the header bits.
MsgOpcode(msg) == (msg.bits \div 2048) % 16

UpdateTypeCreate == 0
UpdateTypeUpdate == 1
UpdateTypeDelete == 2

NoUpdate == [Type |-> -1, RecordType |-> 0, Name |-> <<>>, Zone |-> <<>>,
             IP |-> NilIP, TTL |-> 0]

ClassUpdateTypeInverted(class, ttl) ==
    CASE class = ClassANY -> UpdateTypeDelete
      [] class = ClassNONE -> UpdateTypeDelete
      [] class = ClassINET -> IF ttl = 0 THEN UpdateTypeCreate ELSE UpdateTypeDelete
      [] OTHER -> -1

\* The switch on header.Class: the update type, -1 for an unsupported class.
ClassUpdateType(class, ttl) ==
    CASE class = ClassANY -> UpdateTypeDelete
      [] class = ClassNONE -> UpdateTypeDelete
      [] class = ClassINET -> IF ttl = 0 THEN UpdateTypeDelete ELSE UpdateTypeCreate
      [] OTHER -> -1

\* parseRR returns (update, err): err is TRUE for a non-nil error, and update
\* is NoUpdate for a nil update.
parseRR(rr, zone) ==
    LET type == ClassUpdateType(rr.class, rr.ttl)
        update == [Type |-> type, RecordType |-> rr.rrtype, Name |-> rr.name,
                   Zone |-> zone, IP |-> NilIP, TTL |-> rr.ttl]
    IN  IF type = -1 THEN [update |-> NoUpdate, err |-> TRUE]
        ELSE IF rr.rrtype = TypeA THEN
            IF rr.gotype = "A"
            THEN [update |-> [update EXCEPT !.IP = rr.ip], err |-> FALSE]
            ELSE IF type # UpdateTypeDelete
                 THEN [update |-> NoUpdate, err |-> TRUE]
                 ELSE [update |-> update, err |-> FALSE]
        ELSE IF rr.rrtype = TypeAAAA THEN
            IF rr.gotype = "AAAA"
            THEN [update |-> [update EXCEPT !.IP = rr.ip], err |-> FALSE]
            ELSE IF type # UpdateTypeDelete
                 THEN [update |-> NoUpdate, err |-> TRUE]
                 ELSE [update |-> update, err |-> FALSE]
        ELSE [update |-> NoUpdate, err |-> FALSE]

\* The loop over msg.Ns with each update put in front of the earlier ones.
RECURSIVE parseAllReversed(_, _)
parseAllReversed(ns, zone) ==
    IF ns = <<>> THEN <<>>
    ELSE LET r == parseRR(Head(ns), zone)
         IN  IF r.err \/ r.update = NoUpdate
             THEN parseAllReversed(Tail(ns), zone)
             ELSE parseAllReversed(Tail(ns), zone) \o <<r.update>>

\* The loop over msg.Ns: the updates of the records, in their order.
RECURSIVE parseAll(_, _)
parseAll(ns, zone) ==
    IF ns = <<>> THEN <<>>
    ELSE LET r == parseRR(Head(ns), zone)
         IN  IF r.err \/ r.update = NoUpdate
             THEN parseAll(Tail(ns), zone)
             ELSE <<r.update>> \o parseAll(Tail(ns), zone)

\* Parse without the error for a message that yields no update.
ParseNoEmptyCheck(msg) ==
    IF MsgOpcode(msg) # OpcodeUpdate THEN [updates |-> <<>>, err |-> TRUE]
    ELSE IF Len(msg.question) = 0 THEN [updates |-> <<>>, err |-> TRUE]
    ELSE [updates |-> parseAll(msg.ns, msg.question[1]), err |-> FALSE]

\* Parse returns (updates, err).
Parse(msg) ==
    IF MsgOpcode(msg) # OpcodeUpdate THEN [updates |-> <<>>, err |-> TRUE]
    ELSE IF Len(msg.question) = 0 THEN [updates |-> <<>>, err |-> TRUE]
    ELSE LET updates == parseAll(msg.ns, msg.question[1])
         IN  IF Len(updates) = 0 THEN [updates |-> <<>>, err |-> TRUE]
             ELSE [updates |-> updates, err |-> FALSE]

\* GetHostname that cuts the zone off without looking for the dot before it.
GetHostnameNoDot(u) ==
    LET name == TrimSuffix(u.Name, <<".">>)
        zone == TrimSuffix(u.Zone, <<".">>)
    IN  IF name = zone THEN <<"@">>
        ELSE IF HasSuffix(name, zone) THEN TrimSuffix(TrimSuffix(name, zone), <<".">>)
        ELSE name

GetHostname(u) ==
    LET name == TrimSuffix(u.Name, <<".">>)
        zone == TrimSuffix(u.Zone, <<".">>)
    IN  IF HasSuffix(name, <<".">> \o zone) THEN TrimSuffix(name, <<".">> \o zone)
        ELSE IF name = zone THEN <<"@">>
        ELSE name

(***************************************************************************)
(* k8s.Client: identifiers, labels and the desired DNSEndpoint.            *)
(***************************************************************************)
MaxNameLen == 253
MaxLabelLen == 63

isAlphanumericLower(r) == r \in AlnumLowerSet

\* The loop over the runes of the name: what each rune appends to the
\* result ("" for a rune that is dropped), and the runes appended.
AppendedRune(r) ==
    IF isAlphanumericLower(r) \/ r = "-" THEN r
    ELSE IF r = "." \/ r = "_" \/ r = ":" THEN "-"
    ELSE ""

IsAppended(r) == r # ""

dnsNameToK8sNameLower(name) ==
    Once(LAMBDA x : SelectSeq([i \in 1..Len(x) |-> AppendedRune(x[i])], IsAppended),
         name)

dnsNameToK8sName(name) == dnsNameToK8sNameLower(ToLower(name))

TruncateNever(s, n) == s

Truncate(s, n) == IF Len(s) > n THEN SubSeq(s, 1, n) ELSE s

sanitizeResourceName(hostname) ==
    LET name0 == IF Len(hostname) > 0 /\ hostname[Len(hostname)] = "."
                 THEN SubSeq(hostname, 1, Len(hostname) - 1) ELSE hostname
        name1 == dnsNameToK8sName(name0)
        name2 == IF Len(name1) > 0 /\ ~isAlphanumericLower(name1[1])
                 THEN <<"d","n","s","-">> \o name1 ELSE name1
    IN  Truncate(name2, MaxNameLen)

sanitizeLabel(zone) ==
    LET label0 == IF Len(zone) > 0 /\ zone[Len(zone)] = "."
                  THEN SubSeq(zone, 1, Len(zone) - 1) ELSE zone
    IN  Truncate(dnsNameToK8sName(label0), MaxLabelLen)

recordTypeNameAAAA(upd) == "AAAA"

recordTypeName(upd) == IF upd.RecordType = TypeAAAA THEN "AAAA" ELSE "A"

\* net.IP.String
IPString(ip) == IF ip = NilIP THEN "<nil>" ELSE ip

DefaultLabels(client, upd) ==
    [k \in {"app.kubernetes.io/managed-by", "ddnsbridge4extdns/zone",
            "ddnsbridge4extdns/ask-by"} |->
        CASE k = "app.kubernetes.io/managed-by" -> "ddnsbridge4extdns"
          [] k = "ddnsbridge4extdns/zone" -> Str(sanitizeLabel(upd.Zone))
          [] OTHER -> Str(sanitizeLabel(SplitFirst(client, ":")))]

\* The labels map: the default labels overwritten by the custom labels.
BuildLabels(client, upd) ==
    LET def == DefaultLabels(client, upd)
    IN  [k \in DOMAIN def \cup DOMAIN CustomLabels |->
            IF k \in DOMAIN CustomLabels THEN CustomLabels[k] ELSE def[k]]

\* A DNSEndpoint with one endpoint entry per address family.
DesiredEndpointPerFamily(client, upd) ==
    [name |-> Str(sanitizeResourceName(GetHostname(upd))),
     namespace |-> Namespace,
     labels |-> BuildLabels(client, upd),
     spec |-> [endpoints |-> << [dnsName |-> Str(upd.Name),
                                 recordType |-> "A",
                                 recordTTL |-> upd.TTL,
                                 targets |-> <<IPString(upd.IP)>>],
                                [dnsName |-> Str(upd.Name),
                                 recordType |-> "AAAA",
                                 recordTTL |-> upd.TTL,
                                 targets |-> <<IPString(upd.IP)>>] >>]]

\* The unstructured DNSEndpoint createOrUpdateEndpoint builds.
DesiredEndpoint(client, upd) ==
    [name |-> Str(sanitizeResourceName(GetHostname(upd))),
     namespace |-> Namespace,
     labels |-> BuildLabels(client, upd),
     spec |-> [endpoints |-> << [dnsName |-> Str(upd.Name),
                                 recordType |-> recordTypeName(upd),
                                 recordTTL |-> upd.TTL,
                                 targets |-> <<IPString(upd.IP)>>] >>]]

compareEndpoint(existing, desired) ==
    [labelsMatch |-> existing.labels = desired.labels,
     specMatch |-> existing.spec = desired.spec]

(***************************************************************************)
(* The DNSEndpoint store (the dynamic client of the Kubernetes API): a     *)
(* function from resource name to [labels, spec, resourceVersion].  Each   *)
(* operator is the outcome of one call on store st without an API fault:   *)
(* err is "" for a nil error.                                              *)
(***************************************************************************)
ErrNotFound == "NotFound"
ErrAlreadyExists == "AlreadyExists"
ErrConflict == "Conflict"
ErrAPI == "InternalError"

NoObject == [labels |-> <<>>, spec |-> <<>>, resourceVersion |-> 0]

isNotFoundError(err) == err = ErrNotFound

StoreGet(st, name) ==
    IF name \in DOMAIN st THEN [err |-> "", obj |-> st[name], store |-> st]
    ELSE [err |-> ErrNotFound, obj |-> NoObject, store |-> st]

\* Create that replaces a resource of the same name.
StoreCreateOverwrite(st, endpoint, rv) ==
    LET obj == [labels |-> endpoint.labels, spec |-> endpoint.spec,
                resourceVersion |-> rv]
    IN  [err |-> "", obj |-> obj,
         store |-> [n \in DOMAIN st \cup {endpoint.name} |->
                        IF n = endpoint.name THEN obj ELSE st[n]]]

StoreCreate(st, endpoint, rv) ==
    IF endpoint.name \in DOMAIN st
    THEN [err |-> ErrAlreadyExists, obj |-> NoObject, store |-> st]
    ELSE LET obj == [labels |-> endpoint.labels, spec |-> endpoint.spec,
                     resourceVersion |-> rv]
         IN  [err |-> "", obj |-> obj, store |-> (endpoint.name :> obj) @@ st]

\* Update that ignores the resource version.
StoreUpdateAnyVersion(st, endpoint, version, rv) ==
    IF endpoint.name \notin DOMAIN st
    THEN [err |-> ErrNotFound, obj |-> NoObject, store |-> st]
    ELSE LET obj == [labels |-> endpoint.labels, spec |-> endpoint.spec,
                     resourceVersion |-> rv]
         IN  [err |-> "", obj |-> obj, store |-> [st EXCEPT ![endpoint.name] = obj]]

\* Update with the resource version the caller set on the endpoint.
StoreUpdate(st, endpoint, version, rv) ==
    IF endpoint.name \notin DOMAIN st
    THEN [err |-> ErrNotFound, obj |-> NoObject, store |-> st]
    ELSE IF st[endpoint.name].resourceVersion # version
    THEN [err |-> ErrConflict, obj |-> NoObject, store |-> st]
    ELSE LET obj == [labels |-> endpoint.labels, spec |-> endpoint.spec,
                     resourceVersion |-> rv]
         IN  [err |-> "", obj |-> obj, store |-> [st EXCEPT ![endpoint.name] = obj]]

\* Delete that reports success and removes nothing.
StoreDeleteKeeps(st, name) ==
    IF name \notin DOMAIN st
    THEN [err |-> ErrNotFound, obj |-> NoObject, store |-> st]
    ELSE [err |-> "", obj |-> NoObject, store |-> st]

StoreDelete(st, name) ==
    IF name \notin DOMAIN st
    THEN [err |-> ErrNotFound, obj |-> NoObject, store |-> st]
    ELSE [err |-> "", obj |-> NoObject,
          store |-> [n \in DOMAIN st \ {name} |-> st[n]]]

\* A call that fails with an API error leaves the store as it is.
StoreFault(st) == [err |-> ErrAPI, obj |-> NoObject, store |-> st]

(***************************************************************************)
(* The state: the store, and what each worker keeps of the message it      *)
(* serves.                                                                 *)
(***************************************************************************)
VARIABLES
    store,      \* the DNSEndpoint resources of the namespace
    nextRV,     \* the resource version the store gives to its next write
    nMsgs,      \* messages received so far
    nFaults,    \* store calls that failed with an API error so far
    pc,         \* per worker: "idle", "apply", "create", "update", "done"
    cur,        \* per worker: the message being served
    store0,     \* per worker: the store when the message was received
    resent,     \* per worker: the message repeats the one just answered Success
    stages,     \* per worker: the stages ServeDNS went through
    updates,    \* per worker: the updates Parse returned
    idx,        \* per worker: the position of the loop over the updates
    existing,   \* per worker: the resource the Get of the upsert returned
    calls,      \* per worker: the store calls made for the message
    results,    \* per worker: what each ApplyUpdate returned
    replies,    \* per worker: the replies written for the message
    pure        \* the call of a pure function: its arguments and its result

(***************************************************************************)
(* dns.Server and handler.Handler.                                         *)
(***************************************************************************)
MsgAccept == "MsgAccept"
MsgIgnore == "MsgIgnore"
MsgRejectNotImplemented == "MsgRejectNotImplemented"

\* An acceptance function that hands every message to the handler.
msgAcceptNoFilter(bits) == MsgAccept

msgAccept(bits) ==
    IF (bits \div 32768) % 2 # 0 THEN MsgIgnore
    ELSE LET opcode == (bits \div 2048) % 16
         IN  IF opcode = OpcodeQuery \/ opcode = OpcodeNotify \/ opcode = OpcodeUpdate
             THEN MsgAccept
             ELSE MsgRejectNotImplemented

\* dns.TsigGenerate fails when the secret is not base64.
Base64Secrets == {"changeme", "bXktc2VjcmV0LWtleQ=="}
TsigGenerateFails(secret) == secret \notin Base64Secrets

\* A reply is [rcode, signed, requestMAC]: the status, whether it carries a
\* TSIG signature, and the MAC the signature chains from.
UnsignedReply(rcode) == [rcode |-> rcode, signed |-> FALSE, requestMAC |-> ""]

\* writeResponse without the signing branch.
writeResponseUnsigned(rcode, requestMAC) == UnsignedReply(rcode)

\* h.config.TSIGSecret: the secret of the configuration the behaviour started
\* with, the secret of the deployment when it started with no other.
ConfigTSIGSecret == IF pure.op = "config" THEN pure.TSIGSecret ELSE TSIGSecret

writeResponse(rcode, requestMAC) ==
    IF requestMAC # ""
    THEN IF TsigGenerateFails(ConfigTSIGSecret) THEN UnsignedReply(rcode)
         ELSE [rcode |-> rcode, signed |-> TRUE, requestMAC |-> requestMAC]
    ELSE UnsignedReply(rcode)

RequestMAC(msg) == IF msg.tsig # NoTsig THEN msg.tsig.mac ELSE ""

\* ServeDNS without the zone check.
ServeDNSNoZoneCheck(msg) ==
    LET parse == Parse(msg)
    IN  IF MsgOpcode(msg) # OpcodeUpdate
        THEN [done |-> TRUE, stages |-> <<"ServeDNS">>, updates |-> <<>>,
              reply |-> UnsignedReply(RcodeNotImplemented)]
        ELSE IF Len(msg.question) = 0
        THEN [done |-> TRUE, stages |-> <<"ServeDNS">>, updates |-> <<>>,
              reply |-> writeResponse(RcodeFormatError, RequestMAC(msg))]
        ELSE IF parse.err
        THEN [done |-> TRUE, stages |-> <<"ServeDNS", "Parse">>, updates |-> <<>>,
              reply |-> writeResponse(RcodeFormatError, RequestMAC(msg))]
        ELSE IF Len(parse.updates) = 0
        THEN [done |-> TRUE, stages |-> <<"ServeDNS", "Parse">>, updates |-> <<>>,
              reply |-> writeResponse(RcodeSuccess, RequestMAC(msg))]
        ELSE [done |-> FALSE, stages |-> <<"ServeDNS", "Parse">>,
              updates |-> parse.updates, reply |-> UnsignedReply(RcodeSuccess)]

\* ServeDNS answering a message of another opcode through writeResponse.
ServeDNSSignsNotImplemented(msg) ==
    LET parse == Parse(msg)
    IN  IF MsgOpcode(msg) # OpcodeUpdate
        THEN [done |-> TRUE, stages |-> <<"ServeDNS">>, updates |-> <<>>,
              reply |-> writeResponse(RcodeNotImplemented, RequestMAC(msg))]
        ELSE IF Len(msg.question) = 0
        THEN [done |-> TRUE, stages |-> <<"ServeDNS">>, updates |-> <<>>,
              reply |-> writeResponse(RcodeFormatError, RequestMAC(msg))]
        ELSE IF ~IsZoneAllowed(msg.question[1])
        THEN [done |-> TRUE, stages |-> <<"ServeDNS", "IsZoneAllowed">>,
              updates |-> <<>>,
              reply |-> writeResponse(RcodeRefused, RequestMAC(msg))]
        ELSE IF parse.err
        THEN [done |-> TRUE, stages |-> <<"ServeDNS", "IsZoneAllowed", "Parse">>,
              updates |-> <<>>,
              reply |-> writeResponse(RcodeFormatError, RequestMAC(msg))]
        ELSE IF Len(parse.updates) = 0
        THEN [done |-> TRUE, stages |-> <<"ServeDNS", "IsZoneAllowed", "Parse">>,
              updates |-> <<>>,
              reply |-> writeResponse(RcodeSuccess, RequestMAC(msg))]
        ELSE [done |-> FALSE, stages |-> <<"ServeDNS", "IsZoneAllowed", "Parse">>,
              updates |-> parse.updates, reply |-> UnsignedReply(RcodeSuccess)]

\* ServeDNS up to the loop over the updates: the stages it went through,
\* the updates to apply, and the reply of a return before the loop (done);
\* with no update the loop body never runs and the reply is Success.
ServeDNSPrelude(msg) ==
    LET parse == Parse(msg)
    IN  IF MsgOpcode(msg) # OpcodeUpdate
        THEN [done |-> TRUE, stages |-> <<"ServeDNS">>, updates |-> <<>>,
              reply |-> UnsignedReply(RcodeNotImplemented)]
        ELSE IF Len(msg.question) = 0
        THEN [done |-> TRUE, stages |-> <<"ServeDNS">>, updates |-> <<>>,
              reply |-> writeResponse(RcodeFormatError, RequestMAC(msg))]
        ELSE IF ~IsZoneAllowed(msg.question[1])
        THEN [done |-> TRUE, stages |-> <<"ServeDNS", "IsZoneAllowed">>,
              updates |-> <<>>,
              reply |-> writeResponse(RcodeRefused, RequestMAC(msg))]
        ELSE IF parse.err
        THEN [done |-> TRUE, stages |-> <<"ServeDNS", "IsZoneAllowed", "Parse">>,
              updates |-> <<>>,
              reply |-> writeResponse(RcodeFormatError, RequestMAC(msg))]
        ELSE IF Len(parse.updates) = 0
        THEN [done |-> TRUE, stages |-> <<"ServeDNS", "IsZoneAllowed", "Parse">>,
              updates |-> <<>>,
              reply |-> writeResponse(RcodeSuccess, RequestMAC(msg))]
        ELSE [done |-> FALSE, stages |-> <<"ServeDNS", "IsZoneAllowed", "Parse">>,
              updates |-> parse.updates, reply |-> UnsignedReply(RcodeSuccess)]

(***************************************************************************)
(* The messages of the model.                                              *)
(***************************************************************************)
\* A record as the server unpacks it from the wire: the Go type of the value
\* follows the record type.
WireRR(name, rrtype, class, ttl, ip) ==
    [name |-> name, rrtype |-> rrtype, class |-> class, ttl |-> ttl,
     gotype |-> IF rrtype = TypeA THEN "A"
                ELSE IF rrtype = TypeAAAA THEN "AAAA" ELSE "other",
     ip |-> ip]

AddRouter1 == WireRR(NameRouter, TypeA, ClassINET, 300, IP1)
AddRouter2 == WireRR(NameRouter, TypeA, ClassINET, 300, IP2)
AddRouter6 == WireRR(NameRouter, TypeAAAA, ClassINET, 300, IP6)
AddNas == WireRR(NameNas, TypeA, ClassINET, 300, IP1)
DelRouterAny == WireRR(NameRouter, TypeA, ClassANY, 0, NilIP)
DelRouterNone == WireRR(NameRouter, TypeA, ClassNONE, 0, IP1)
DelRouterTtl0 == WireRR(NameRouter, TypeA, ClassINET, 0, IP1)
DelRouter6 == WireRR(NameRouter, TypeAAAA, ClassANY, 0, NilIP)
MxRouter == WireRR(NameRouter, TypeMX, ClassINET, 300, NilIP)
ChaosRouter == WireRR(NameRouter, TypeA, ClassCHAOS, 300, IP1)

RouterExampleCom == WireRR(NameRouterExampleCom, TypeA, ClassINET, 300, IP1)

CoreRecords == {AddRouter1, AddNas, DelRouterAny}
ExtraRecords == {AddRouter2, AddRouter6, DelRouterNone, DelRouterTtl0, DelRouter6,
                 ChaosRouter, MxRouter}

SeqsUpTo(S, n) == UNION {[1..k -> S] : k \in 0..n}

\* The update sections: every sequence of core records, each other record
\* alone, a skipped record before an address record, a change of address, and
\* one message of three records.
Sections ==
    SeqsUpTo(CoreRecords, MaxRecords) \cup {<<r>> : r \in ExtraRecords}
    \cup {<<MxRouter, AddRouter1>>, <<ChaosRouter, AddRouter1>>,
          <<AddRouter1, AddRouter2>>, <<AddRouter1, AddNas, AddRouter2>>}

ValidTsig == [name |-> TSIGKey \o ".", algorithm |-> HmacSHA256, mac |-> GoodMAC]
TsigVariants ==
    {NoTsig, ValidTsig,
     [ValidTsig EXCEPT !.name = "wrong-key."],
     [ValidTsig EXCEPT !.algorithm = HmacSHA512],
     [ValidTsig EXCEPT !.mac = BadMAC]}

HeaderBits(qr, opcode) == qr * 32768 + opcode * 2048

NoMsg == [bits |-> 0, question |-> <<>>, ns |-> <<>>, tsig |-> NoTsig, from |-> <<>>]

ShortSections == {<<>>, <<AddRouter1>>, <<DelRouterAny>>, <<MxRouter>>}
Zones == {<<>>, <<ZoneExample>>, <<ZoneNotAllowed>>}

\* Every section for the allowed zone, signed, from the first sender; the
\* short sections for every zone with every TSIG variant from that sender;
\* and single records from the second sender.
UpdateMessages ==
    {[bits |-> HeaderBits(0, OpcodeUpdate), question |-> <<ZoneExample>>,
      ns |-> s, tsig |-> ValidTsig, from |-> Sender1] : s \in Sections}
    \cup
    {[bits |-> HeaderBits(0, OpcodeUpdate), question |-> q, ns |-> s,
      tsig |-> t, from |-> f] :
        q \in Zones, s \in ShortSections, t \in TsigVariants, f \in {Sender1}}
    \cup
    {[bits |-> HeaderBits(0, OpcodeUpdate), question |-> <<ZoneExample>>,
      ns |-> s, tsig |-> t, from |-> Sender2] :
        s \in {<<AddRouter1>>, <<DelRouterAny>>}, t \in {NoTsig, ValidTsig}}

\* The signed update of the README: router.example.com. in zone example.com.
RouterMessage ==
    [bits |-> HeaderBits(0, OpcodeUpdate), question |-> <<ZoneExampleCom>>,
     ns |-> <<RouterExampleCom>>, tsig |-> ValidTsig, from |-> Sender1]

OtherMessages ==
    {[bits |-> b, question |-> <<ZoneExample>>, ns |-> <<AddRouter1>>,
      tsig |-> t, from |-> Sender1] :
        b \in {HeaderBits(0, OpcodeQuery), HeaderBits(0, OpcodeNotify),
               HeaderBits(0, OpcodeStatus), HeaderBits(1, OpcodeUpdate)},
        t \in {NoTsig, ValidTsig}}
    \cup
    {[bits |-> HeaderBits(qr, opcode), question |-> <<ZoneExample>>,
      ns |-> <<AddRouter1>>, tsig |-> ValidTsig, from |-> Sender1] :
        qr \in {0, 1}, opcode \in {1, 3, 6, 15}}

Messages == UpdateMessages \cup OtherMessages \cup {RouterMessage}

(***************************************************************************)
(* Workers.  One worker is the goroutine the server runs ServeDNS in.      *)
(***************************************************************************)
Workers == {"w1", "w2"}

handlerVars == <<store, nextRV, nMsgs, nFaults, pc, cur, store0, resent, stages,
                 updates, idx, existing, calls, results, replies>>
vars == <<handlerVars, pure>>

NoCall == [op |-> "none"]

HandlerInit ==
    /\ store = <<>>
    /\ nextRV = 1
    /\ nMsgs = 0
    /\ nFaults = 0
    /\ pc = [w \in Workers |-> "idle"]
    /\ cur = [w \in Workers |-> NoMsg]
    /\ store0 = [w \in Workers |-> <<>>]
    /\ resent = [w \in Workers |-> FALSE]
    /\ stages = [w \in Workers |-> <<>>]
    /\ updates = [w \in Workers |-> <<>>]
    /\ idx = [w \in Workers |-> 0]
    /\ existing = [w \in Workers |-> NoObject]
    /\ calls = [w \in Workers |-> <<>>]
    /\ results = [w \in Workers |-> <<>>]
    /\ replies = [w \in Workers |-> <<>>]

Init == HandlerInit /\ pure = NoCall

LastRcode(w) == IF replies[w] = <<>> THEN -1 ELSE replies[w][Len(replies[w])].rcode

\* The server reads message m and, when msgAccept accepts it, runs ServeDNS
\* up to the loop over the updates.
Serve(w, m) ==
    /\ nMsgs < MaxMsgs
    /\ nMsgs' = nMsgs + 1
    /\ cur' = [cur EXCEPT ![w] = m]
    /\ calls' = [calls EXCEPT ![w] = <<>>]
    /\ results' = [results EXCEPT ![w] = <<>>]
    /\ existing' = [existing EXCEPT ![w] = NoObject]
    /\ \E action \in {msgAccept(m.bits)} :
       IF action = MsgIgnore
       THEN /\ pc' = [pc EXCEPT ![w] = "done"]
            /\ stages' = [stages EXCEPT ![w] = <<>>]
            /\ updates' = [updates EXCEPT ![w] = <<>>]
            /\ idx' = [idx EXCEPT ![w] = 0]
            /\ replies' = [replies EXCEPT ![w] = <<>>]
       ELSE IF action = MsgRejectNotImplemented
       THEN /\ pc' = [pc EXCEPT ![w] = "done"]
            /\ stages' = [stages EXCEPT ![w] = <<>>]
            /\ updates' = [updates EXCEPT ![w] = <<>>]
            /\ idx' = [idx EXCEPT ![w] = 0]
            /\ replies' = [replies EXCEPT ![w] =
                             <<UnsignedReply(RcodeNotImplemented)>>]
       ELSE \E serve \in {ServeDNSPrelude(m)} :
            /\ pc' = [pc EXCEPT ![w] = IF serve.done THEN "done" ELSE "apply"]
            /\ stages' = [stages EXCEPT ![w] = serve.stages]
            /\ updates' = [updates EXCEPT ![w] = serve.updates]
            /\ idx' = [idx EXCEPT ![w] = IF serve.done THEN 0 ELSE 1]
            /\ replies' = [replies EXCEPT ![w] =
                             IF serve.done THEN <<serve.reply>> ELSE <<>>]
    /\ UNCHANGED <<store, nextRV, nFaults, pure>>

\* Serve, with the store as it is when the message arrives kept in store0.
ServeMessage(w, m) ==
    /\ store0' = [store0 EXCEPT ![w] = store]
    /\ Serve(w, m)

\* A sender's message arrives at an idle worker.
Receive(w, m) ==
    /\ pc[w] = "idle"
    /\ resent' = [resent EXCEPT ![w] = FALSE]
    /\ ServeMessage(w, m)

\* The sender of a message answered Success sends the same message again.
Retransmit(w) ==
    /\ pc[w] = "done"
    /\ LastRcode(w) = RcodeSuccess
    /\ resent' = [resent EXCEPT ![w] = TRUE]
    /\ ServeMessage(w, cur[w])

\* The sender of a message answered ServerFailure sends the same message
\* again; store0 stays the store of the first attempt.
RetransmitFailed(w) ==
    /\ pc[w] = "done"
    /\ LastRcode(w) = RcodeServerFailure
    /\ resent' = [resent EXCEPT ![w] = TRUE]
    /\ UNCHANGED store0
    /\ Serve(w, cur[w])

\* ServeDNS has returned: nothing of the message is kept.
Return(w) ==
    /\ pc[w] = "done"
    /\ pc' = [pc EXCEPT ![w] = "idle"]
    /\ cur' = [cur EXCEPT ![w] = NoMsg]
    /\ store0' = [store0 EXCEPT ![w] = <<>>]
    /\ resent' = [resent EXCEPT ![w] = FALSE]
    /\ stages' = [stages EXCEPT ![w] = <<>>]
    /\ updates' = [updates EXCEPT ![w] = <<>>]
    /\ idx' = [idx EXCEPT ![w] = 0]
    /\ existing' = [existing EXCEPT ![w] = NoObject]
    /\ calls' = [calls EXCEPT ![w] = <<>>]
    /\ results' = [results EXCEPT ![w] = <<>>]
    /\ replies' = [replies EXCEPT ![w] = <<>>]
    /\ UNCHANGED <<store, nextRV, nMsgs, nFaults, pure>>

\* The rest of the loop body of ServeDNS after ApplyUpdate returned
\* (changed, err), without the return on an error.
AfterApplyNoStop(w, changed, err) ==
    /\ results' = [results EXCEPT ![w] = Append(@, [changed |-> changed, err |-> err])]
    /\ IF idx[w] = Len(updates[w])
       THEN /\ replies' = [replies EXCEPT ![w] =
                    Append(@, writeResponse(IF err THEN RcodeServerFailure
                                            ELSE RcodeSuccess, RequestMAC(cur[w])))]
            /\ pc' = [pc EXCEPT ![w] = "done"]
            /\ idx' = idx
       ELSE /\ replies' = replies
            /\ pc' = [pc EXCEPT ![w] = "apply"]
            /\ idx' = [idx EXCEPT ![w] = @ + 1]

\* The loop body of ServeDNS without the return after the ServerFailure
\* reply: the loop goes on, and the Success reply follows the last update.
AfterApplyFallsThrough(w, changed, err) ==
    /\ results' = [results EXCEPT ![w] = Append(@, [changed |-> changed, err |-> err])]
    /\ \E failure \in {IF err THEN <<writeResponse(RcodeServerFailure, RequestMAC(cur[w]))>>
                       ELSE <<>>} :
        IF idx[w] = Len(updates[w])
        THEN /\ replies' = [replies EXCEPT ![w] =
                     Append(@ \o failure, writeResponse(RcodeSuccess, RequestMAC(cur[w])))]
             /\ pc' = [pc EXCEPT ![w] = "done"]
             /\ idx' = idx
        ELSE /\ replies' = [replies EXCEPT ![w] = @ \o failure]
             /\ pc' = [pc EXCEPT ![w] = "apply"]
             /\ idx' = [idx EXCEPT ![w] = @ + 1]

\* The rest of the loop body of ServeDNS after ApplyUpdate returned
\* (changed, err): ServerFailure and return on an error, the next update
\* otherwise, Success after the last one.
AfterApply(w, changed, err) ==
    /\ results' = [results EXCEPT ![w] = Append(@, [changed |-> changed, err |-> err])]
    /\ IF err
       THEN /\ replies' = [replies EXCEPT ![w] =
                    Append(@, writeResponse(RcodeServerFailure, RequestMAC(cur[w])))]
            /\ pc' = [pc EXCEPT ![w] = "done"]
            /\ idx' = idx
       ELSE IF idx[w] = Len(updates[w])
       THEN /\ replies' = [replies EXCEPT ![w] =
                    Append(@, writeResponse(RcodeSuccess, RequestMAC(cur[w])))]
            /\ pc' = [pc EXCEPT ![w] = "done"]
            /\ idx' = idx
       ELSE /\ replies' = replies
            /\ pc' = [pc EXCEPT ![w] = "apply"]
            /\ idx' = [idx EXCEPT ![w] = @ + 1]

CurrentUpdate(w) == updates[w][idx[w]]
CurrentEndpoint(w) == DesiredEndpoint(cur[w].from, CurrentUpdate(w))

\* Whether the next store call fails with an API error.
FaultChoices == IF nFaults < MaxFaults THEN BOOLEAN ELSE {FALSE}

Call(w, op, name, r, fault) ==
    /\ calls' = [calls EXCEPT ![w] = Append(@, [op |-> op, name |-> name, err |-> r.err])]
    /\ nFaults' = IF fault THEN nFaults + 1 ELSE nFaults
    /\ store' = r.store
    /\ nextRV' = IF r.store # store THEN nextRV + 1 ELSE nextRV

\* Which branch of the switch of ApplyUpdate an update takes.
ApplyUpdateBranch(upd) ==
    IF upd.Type = UpdateTypeCreate \/ upd.Type = UpdateTypeUpdate
    THEN "createOrUpdateEndpoint"
    ELSE IF upd.Type = UpdateTypeDelete THEN "deleteEndpoint"
    ELSE "unsupported"

\* createOrUpdateEndpoint after its Get returned (obj, err): "skip" (no
\* write, changed = false), "update", "create" or "error".
GetOutcomeNoCompare(obj, err, endpoint) ==
    IF err = "" THEN "update"
    ELSE IF ~isNotFoundError(err) THEN "error"
    ELSE "create"

\* createOrUpdateEndpoint that goes on to Create after any failed Get.
GetOutcomeIgnoresError(obj, err, endpoint) ==
    IF err = ""
    THEN IF compareEndpoint(obj, endpoint).labelsMatch
            /\ compareEndpoint(obj, endpoint).specMatch
         THEN "skip" ELSE "update"
    ELSE "create"

GetOutcome(obj, err, endpoint) ==
    IF err = ""
    THEN IF compareEndpoint(obj, endpoint).labelsMatch
            /\ compareEndpoint(obj, endpoint).specMatch
         THEN "skip" ELSE "update"
    ELSE IF ~isNotFoundError(err) THEN "error"
    ELSE "create"

\* createOrUpdateEndpoint: build the endpoint and Get the existing resource.
GetEndpoint(w) ==
    /\ pc[w] = "apply"
    /\ ApplyUpdateBranch(CurrentUpdate(w)) = "createOrUpdateEndpoint"
    /\ \E fault \in FaultChoices :
        \E endpoint \in {CurrentEndpoint(w)} :
        \E r \in {IF fault THEN StoreFault(store) ELSE StoreGet(store, endpoint.name)} :
        \E outcome \in {GetOutcome(r.obj, r.err, endpoint)} :
            /\ Call(w, "get", endpoint.name, r, fault)
            /\ IF outcome = "skip"
               THEN AfterApply(w, FALSE, FALSE) /\ UNCHANGED existing
               ELSE IF outcome = "error"
               THEN AfterApply(w, FALSE, TRUE) /\ UNCHANGED existing
               ELSE /\ pc' = [pc EXCEPT ![w] = outcome]
                    /\ existing' = [existing EXCEPT ![w] = r.obj]
                    /\ UNCHANGED <<results, replies, idx>>
    /\ UNCHANGED <<nMsgs, cur, store0, resent, stages, updates, pure>>

\* createOrUpdateEndpoint: Update with the resource version of the Get.
UpdateEndpoint(w) ==
    /\ pc[w] = "update"
    /\ \E fault \in FaultChoices :
        \E endpoint \in {CurrentEndpoint(w)} :
        \E r \in {IF fault THEN StoreFault(store)
                 ELSE StoreUpdate(store, endpoint, existing[w].resourceVersion, nextRV)} :
            /\ Call(w, "update", endpoint.name, r, fault)
            /\ AfterApply(w, r.err = "", r.err # "")
    /\ UNCHANGED <<nMsgs, cur, store0, resent, stages, updates, existing, pure>>

\* createOrUpdateEndpoint: Create after a Get that found nothing.
CreateEndpoint(w) ==
    /\ pc[w] = "create"
    /\ \E fault \in FaultChoices :
        \E endpoint \in {CurrentEndpoint(w)} :
        \E r \in {IF fault THEN StoreFault(store)
                 ELSE StoreCreate(store, endpoint, nextRV)} :
            /\ Call(w, "create", endpoint.name, r, fault)
            /\ AfterApply(w, r.err = "", r.err # "")
    /\ UNCHANGED <<nMsgs, cur, store0, resent, stages, updates, existing, pure>>

\* Whether deleteEndpoint returns an error for the error of its Delete call.
deleteEndpointErrStrict(err) == err # ""

deleteEndpointErr(err) == err # "" /\ ~isNotFoundError(err)

\* ApplyUpdate for a delete (and for an unsupported update type).
deleteEndpoint(w) ==
    /\ pc[w] = "apply"
    /\ ApplyUpdateBranch(CurrentUpdate(w)) # "createOrUpdateEndpoint"
    /\ IF ApplyUpdateBranch(CurrentUpdate(w)) = "unsupported"
       THEN /\ AfterApply(w, FALSE, TRUE)
            /\ UNCHANGED <<store, nextRV, nFaults, calls>>
       ELSE \E fault \in FaultChoices :
            \E name \in {Str(sanitizeResourceName(GetHostname(CurrentUpdate(w))))} :
            \E r \in {IF fault THEN StoreFault(store) ELSE StoreDelete(store, name)} :
                /\ Call(w, "delete", name, r, fault)
                /\ AfterApply(w, TRUE, deleteEndpointErr(r.err))
    /\ UNCHANGED <<nMsgs, cur, store0, resent, stages, updates, existing, pure>>

\* One goroutine serves one message after the other.
Next ==
    \/ \E m \in Messages : Receive("w1", m)
    \/ Retransmit("w1")
    \/ Return("w1")
    \/ GetEndpoint("w1")
    \/ UpdateEndpoint("w1")
    \/ CreateEndpoint("w1")
    \/ deleteEndpoint("w1")

Spec == Init /\ [][Next]_vars

(***************************************************************************)
(* Properties of the request pipeline.                                     *)
(***************************************************************************)
IsWrite(c) == c.op \in {"create", "update", "delete"}
WriteCalls(w) == SelectSeq(calls[w], IsWrite)
CallOps(w) == [i \in DOMAIN calls[w] |-> calls[w][i].op]
NoFault(w) == \A i \in DOMAIN calls[w] : calls[w][i].err # ErrAPI
StageSet(w) == Range(stages[w])
ResourceName(u) == Str(sanitizeResourceName(GetHostname(u)))

\* Worker w serves an UPDATE message that the server handed to the handler.
Served(w) ==
    /\ cur[w] # NoMsg
    /\ msgAccept(cur[w].bits) = MsgAccept
    /\ MsgOpcode(cur[w]) = OpcodeUpdate

\* C1: an UPDATE message without a TSIG record causes no create, update or
\* delete on the store, and its reply is not Success.
C1_UnsignedRejected ==
    \A w \in Workers :
        (Served(w) /\ cur[w].tsig = NoTsig)
        => (WriteCalls(w) = <<>> /\ LastRcode(w) # RcodeSuccess)

\* C2: an UPDATE message whose signature fails validation (key name,
\* algorithm or MAC) is answered NotAuth and reaches neither the zone check,
\* nor the parser, nor the store.
C2_BadSignatureNotAuth ==
    \A w \in Workers :
        (/\ Served(w)
         /\ pc[w] = "done"
         /\ cur[w].tsig # NoTsig
         /\ Validate(cur[w].tsig) # "")
        => (/\ LastRcode(w) = RcodeNotAuth
            /\ StageSet(w) \cap {"IsZoneAllowed", "Parse"} = {}
            /\ calls[w] = <<>>)

\* C3: an UPDATE message whose zone is not allowed is answered Refused; the
\* parser is not invoked and no store call (get, create, update, delete) is
\* made for it.
C3_ZoneRefused ==
    \A w \in Workers :
        (/\ Served(w)
         /\ Len(cur[w].question) > 0
         /\ ~IsZoneAllowed(cur[w].question[1]))
        => (/\ pc[w] = "done"
            /\ replies[w] = <<writeResponse(RcodeRefused, RequestMAC(cur[w]))>>
            /\ "Parse" \notin StageSet(w)
            /\ updates[w] = <<>>
            /\ calls[w] = <<>>
            /\ store = store0[w])

C3_Witness ==
    /\ pc["w1"] = "done"
    /\ cur["w1"].question = <<ZoneNotAllowed>>
    /\ cur["w1"].ns = <<AddRouter1>>
    /\ cur["w1"].tsig = ValidTsig
    /\ LastRcode("w1") = RcodeRefused

\* C4: the same upsert applied twice to a store that lacks the resource
\* reports changed = true then changed = false, the second apply makes no
\* write and the stored resource is the one the first apply created; and a
\* single-upsert message answered Success that is sent again is answered
\* Success without any store write.
C4_IdempotentApply ==
    \A w \in Workers :
        /\ (/\ pc[w] = "done"
            /\ Len(updates[w]) = 2
            /\ updates[w][1] = updates[w][2]
            /\ updates[w][1].Type = UpdateTypeCreate
            /\ ResourceName(updates[w][1]) \notin DOMAIN store0[w]
            /\ NoFault(w))
           => LET name == ResourceName(updates[w][1])
                  desired == DesiredEndpoint(cur[w].from, updates[w][1])
              IN  /\ results[w] = << [changed |-> TRUE, err |-> FALSE],
                                      [changed |-> FALSE, err |-> FALSE] >>
                  /\ CallOps(w) = <<"get", "create", "get">>
                  /\ name \in DOMAIN store
                  /\ store[name].labels = desired.labels
                  /\ store[name].spec = desired.spec
                  /\ store[name].resourceVersion = nextRV - 1
                  /\ \A n \in DOMAIN store0[w] : n \in DOMAIN store /\ store[n] = store0[w][n]
                  /\ LastRcode(w) = RcodeSuccess
        /\ (/\ pc[w] = "done"
            /\ resent[w]
            /\ Len(cur[w].ns) = 1
            /\ Len(updates[w]) = 1
            /\ updates[w][1].Type = UpdateTypeCreate
            /\ NoFault(w))
           => (/\ LastRcode(w) = RcodeSuccess
               /\ WriteCalls(w) = <<>>
               /\ results[w] = << [changed |-> FALSE, err |-> FALSE] >>
               /\ store = store0[w])

C4_Witness ==
    /\ pc["w1"] = "done"
    /\ cur["w1"].ns = <<AddRouter1, AddRouter1>>
    /\ store0["w1"] = <<>>
    /\ Len(results["w1"]) = 2
    /\ results["w1"][1].changed
    /\ ~results["w1"][2].changed
    /\ LastRcode("w1") = RcodeSuccess

\* C5: a delete whose identifier is not in the store returns no error and
\* leaves the store as it is; a Delete call that fails with any error other
\* than not-found makes the apply return an error.
C5_IdempotentDelete ==
    [][\A w \in Workers :
        (/\ pc[w] = "apply"
         /\ ApplyUpdateBranch(CurrentUpdate(w)) = "deleteEndpoint"
         /\ Len(results'[w]) = Len(results[w]) + 1)
        => LET name == ResourceName(CurrentUpdate(w))
               c == calls'[w][Len(calls'[w])]
               r == results'[w][Len(results'[w])]
           IN  /\ Len(calls'[w]) = Len(calls[w]) + 1
               /\ c.op = "delete" /\ c.name = name
               /\ (name \notin DOMAIN store /\ c.err # ErrAPI)
                  => (c.err = ErrNotFound /\ ~r.err /\ store' = store)
               /\ (c.err \notin {"", ErrNotFound}) => (r.err /\ store' = store)
               /\ (c.err = "") => (~r.err /\ name \notin DOMAIN store')
      ]_vars

C5_Witness ==
    /\ calls["w1"] # <<>>
    /\ calls["w1"][Len(calls["w1"])].op = "delete"
    /\ calls["w1"][Len(calls["w1"])].err = ErrNotFound
    /\ Len(results["w1"]) = 1
    /\ ~results["w1"][1].err
    /\ LastRcode("w1") = RcodeSuccess
    /\ store = store0["w1"]

\* An address record of a class the parser turns into an intent.
IsAddressRecord(r) ==
    /\ r.rrtype \in {TypeA, TypeAAAA}
    /\ r.class \in {ClassINET, ClassANY, ClassNONE}
AddressRecords(ns) == SelectSeq(ns, IsAddressRecord)

Add1(n) == IF n < 0 THEN -1 ELSE n + 1

\* The number of intents of us that the store calls cs belong to, when the
\* calls are those of the intents in the order of us; -1 when they are not.
RECURSIVE Consumed(_, _)
Consumed(cs, us) ==
    IF cs = <<>> THEN 0
    ELSE IF us = <<>> THEN -1
    ELSE LET name == ResourceName(Head(us))
         IN  IF Head(us).Type = UpdateTypeDelete
             THEN IF cs[1].op = "delete" /\ cs[1].name = name
                  THEN Add1(Consumed(Tail(cs), Tail(us)))
                  ELSE -1
             ELSE IF cs[1].op = "get" /\ cs[1].name = name
                  THEN IF /\ Len(cs) >= 2
                          /\ cs[2].op \in {"create", "update"}
                          /\ cs[2].name = name
                       THEN Add1(Consumed(SubSeq(cs, 3, Len(cs)), Tail(us)))
                       ELSE Add1(Consumed(Tail(cs), Tail(us)))
                  ELSE -1

\* The names present after the successful calls of cs, starting from names.
RECURSIVE Replay(_, _)
Replay(names, cs) ==
    IF cs = <<>> THEN names
    ELSE Replay(IF cs[1].err # "" THEN names
                ELSE IF cs[1].op = "create" THEN names \cup {cs[1].name}
                ELSE IF cs[1].op = "delete" THEN names \ {cs[1].name}
                ELSE names,
                Tail(cs))

\* C6: the intents of a message are applied in the order of their records;
\* the first apply that returns an error ends the processing with
\* ServerFailure, no later intent is applied and what earlier intents wrote
\* stays in the store; a successful 'delete X; add X' leaves X in the store.
C6_OrderedStopAtFirstError ==
    \A w \in Workers :
        (Served(w) /\ "Parse" \in StageSet(w) /\ updates[w] # <<>>)
        => LET us == updates[w]
               rs == results[w]
               n == Consumed(calls[w], us)
               recs == AddressRecords(cur[w].ns)
           IN  /\ Len(us) = Len(recs)
               /\ \A i \in DOMAIN us :
                    /\ us[i].Name = recs[i].name
                    /\ us[i].RecordType = recs[i].rrtype
                    /\ us[i].TTL = recs[i].ttl
               /\ n = Len(rs) + (IF pc[w] \in {"create", "update"} THEN 1 ELSE 0)
               /\ Len(rs) <= Len(us)
               /\ \A k \in 1..(Len(rs) - 1) : ~rs[k].err
               /\ (rs # <<>> /\ rs[Len(rs)].err)
                  => (pc[w] = "done" /\ LastRcode(w) = RcodeServerFailure)
               /\ (pc[w] = "done")
                  => /\ Len(replies[w]) = 1
                     /\ rs # <<>>
                     /\ LastRcode(w) = (IF rs[Len(rs)].err THEN RcodeServerFailure
                                        ELSE RcodeSuccess)
                     /\ ~rs[Len(rs)].err => Len(rs) = Len(us)
               /\ DOMAIN store = Replay(DOMAIN store0[w], calls[w])
               /\ (/\ pc[w] = "done"
                   /\ LastRcode(w) = RcodeSuccess
                   /\ Len(us) = 2
                   /\ us[1].Type = UpdateTypeDelete
                   /\ us[2].Type = UpdateTypeCreate
                   /\ us[1].Name = us[2].Name)
                  => /\ ResourceName(us[2]) \in DOMAIN store
                     /\ store[ResourceName(us[2])].spec
                          = DesiredEndpoint(cur[w].from, us[2]).spec

C6_Witness ==
    /\ pc["w1"] = "done"
    /\ cur["w1"].ns = <<AddRouter1, AddNas, AddRouter2>>
    /\ LastRcode("w1") = RcodeServerFailure
    /\ Len(results["w1"]) = 2
    /\ ResourceName(updates["w1"][1]) \in DOMAIN store
    /\ ResourceName(updates["w1"][1]) \notin DOMAIN store0["w1"]
    /\ ResourceName(updates["w1"][2]) \notin DOMAIN store

\* C7: a message handed to the handler is answered Success exactly when its
\* opcode is update, it passed authentication, its zone section is non-empty
\* and names an allowed zone, parsing yielded at least one intent, and every
\* intent was applied without error.
C7_SuccessIff ==
    \A w \in Workers :
        (/\ pc[w] = "done"
         /\ cur[w] # NoMsg
         /\ msgAccept(cur[w].bits) = MsgAccept)
        => (LastRcode(w) = RcodeSuccess
            <=> (/\ MsgOpcode(cur[w]) = OpcodeUpdate
                 /\ Validate(cur[w].tsig) = ""
                 /\ Len(cur[w].question) > 0
                 /\ IsZoneAllowed(cur[w].question[1])
                 /\ Len(updates[w]) >= 1
                 /\ Len(results[w]) = Len(updates[w])
                 /\ \A i \in DOMAIN results[w] : ~results[w][i].err))

\* C8: a message with an empty zone section, or one that yields zero intents
\* after parsing, is answered FormatError and causes no store mutation; the
\* empty zone section is detected before the zone check, so such a message
\* is never answered Refused.
C8_FormatError ==
    \A w \in Workers :
        Served(w)
        => /\ (Len(cur[w].question) = 0)
              => (/\ pc[w] = "done"
                  /\ Len(replies[w]) = 1
                  /\ LastRcode(w) = RcodeFormatError
                  /\ "IsZoneAllowed" \notin StageSet(w)
                  /\ calls[w] = <<>>
                  /\ store = store0[w])
           /\ (/\ Len(cur[w].question) > 0
               /\ IsZoneAllowed(cur[w].question[1])
               /\ AddressRecords(cur[w].ns) = <<>>)
              => (/\ pc[w] = "done"
                  /\ "Parse" \in StageSet(w)
                  /\ Len(replies[w]) = 1
                  /\ LastRcode(w) = RcodeFormatError
                  /\ calls[w] = <<>>
                  /\ store = store0[w])

C8_Witness ==
    /\ pc["w1"] = "done"
    /\ cur["w1"].question = <<ZoneExample>>
    /\ cur["w1"].ns = <<MxRouter>>
    /\ cur["w1"].tsig = ValidTsig
    /\ LastRcode("w1") = RcodeFormatError

(***************************************************************************)
(* Config.IsZoneAllowed on its own: a zone and an allowed list are drawn,  *)
(* and the function is applied to them.                                    *)
(***************************************************************************)
ZoneChars == {"a", "."}
StringsUpTo(n) == UNION {[1..k -> ZoneChars] : k \in 0..n}

EvilExampleComDot == <<"e","v","i","l">> \o ExampleCom \o <<".">>
SubExampleCom == <<"s","u","b",".">> \o ExampleCom

\* The zones asked about, and the lists LoadConfig can produce: at least one
\* entry, no entry empty.
ZoneInputs ==
    {[zone |-> z, allowed |-> a] :
        z \in StringsUpTo(MaxZoneLen),
        a \in UNION {[1..k -> StringsUpTo(MaxAllowedLen) \ {<<>>}] : k \in 1..MaxAllowed}}
    \cup
    {[zone |-> z, allowed |-> <<ExampleCom>>] :
        z \in {EvilExampleComDot, SubExampleCom, ExampleCom}}

InitZone ==
    /\ HandlerInit
    /\ pure \in {[op |-> "IsZoneAllowed", zone |-> i.zone, allowed |-> i.allowed,
                  done |-> FALSE, result |-> FALSE] : i \in ZoneInputs}

CallIsZoneAllowed ==
    /\ pure.op = "IsZoneAllowed"
    /\ ~pure.done
    /\ pure' = [pure EXCEPT !.done = TRUE,
                            !.result = IsZoneAllowedIn(pure.zone, pure.allowed)]
    /\ UNCHANGED handlerVars

NextZone == CallIsZoneAllowed

SpecZone == InitZone /\ [][NextZone]_vars

\* s with a dot appended when its last character is not a dot.
WithDot(s) == IF s # <<>> /\ s[Len(s)] = "." THEN s ELSE Append(s, ".")

\* z is a, or z ends with a preceded by a dot.
WholeLabelSuffix(z, a) ==
    \/ z = a
    \/ /\ Len(z) > Len(a)
       /\ z[Len(z) - Len(a)] = "."
       /\ \A k \in 1..Len(a) : z[Len(z) - Len(a) + k] = a[k]

\* C9: IsZoneAllowed(zone) is true exactly when, with a trailing dot appended
\* to the zone and to every allowed zone that lacks one, the zone equals an
\* allowed zone or ends with "." followed by it; evilexample.com. is not
\* allowed by example.com, sub.example.com and example.com are.
C9_WholeLabelSuffix ==
    (pure.op = "IsZoneAllowed" /\ pure.done)
    => /\ pure.result
            <=> \E i \in DOMAIN pure.allowed :
                    WholeLabelSuffix(WithDot(pure.zone), WithDot(pure.allowed[i]))
       /\ pure.allowed = <<ExampleCom>>
            => /\ pure.zone = EvilExampleComDot => ~pure.result
               /\ pure.zone = SubExampleCom => pure.result
               /\ pure.zone = ExampleCom => pure.result

C9_Witness ==
    /\ pure.op = "IsZoneAllowed"
    /\ pure.done
    /\ pure.zone = EvilExampleComDot
    /\ pure.allowed = <<ExampleCom>>
    /\ ~pure.result

(***************************************************************************)
(* Parser.Parse on its own: an update section is drawn and parsed.         *)
(***************************************************************************)
ParseClasses == {ClassINET, ClassANY, ClassNONE, ClassCHAOS}
ParseTypes == {TypeA, TypeAAAA, TypeMX}
ParseTTLs == {0, 300}

\* The address a record of the given type and class carries on the wire.
WireIP(rrtype, class) ==
    IF class = ClassANY THEN NilIP
    ELSE IF rrtype = TypeA THEN IP1
    ELSE IF rrtype = TypeAAAA THEN IP6
    ELSE NilIP

ParseRecords ==
    {WireRR(NameRouter, t, c, ttl, WireIP(t, c)) :
        t \in ParseTypes, c \in ParseClasses, ttl \in ParseTTLs}

ParseInputs ==
    {[bits |-> HeaderBits(0, OpcodeUpdate), question |-> <<ZoneExample>>,
      ns |-> s, tsig |-> ValidTsig, from |-> Sender1] :
        s \in SeqsUpTo(ParseRecords, MaxParseRecords)}

InitParse ==
    /\ HandlerInit
    /\ pure \in {[op |-> "Parse", msg |-> m, done |-> FALSE,
                  result |-> [updates |-> <<>>, err |-> FALSE]] : m \in ParseInputs}

CallParse ==
    /\ pure.op = "Parse"
    /\ ~pure.done
    /\ pure' = [pure EXCEPT !.done = TRUE, !.result = Parse(pure.msg)]
    /\ UNCHANGED handlerVars

NextParse == CallParse

SpecParse == InitParse /\ [][NextParse]_vars

\* The class/TTL table: the intent kind of a record.
TableKind(class, ttl) ==
    IF class = ClassANY THEN "delete"
    ELSE IF class = ClassNONE THEN "delete"
    ELSE IF class = ClassINET THEN (IF ttl > 0 THEN "upsert" ELSE "delete")
    ELSE "none"

\* C10: for every A or AAAA record of the update section the parser produces
\* the intent of the class/TTL table, in order: class ANY, class NONE and
\* class IN with TTL 0 give a delete, class IN with TTL > 0 gives an upsert
\* with the record's address and TTL; a record of another class gives no
\* intent and does not abort the parsing of the other records.
C10_ClassTtlTable ==
    (pure.op = "Parse" /\ pure.done)
    => LET recs == AddressRecords(pure.msg.ns)
           us == pure.result.updates
       IN  /\ pure.result.err <=> recs = <<>>
           /\ Len(us) = Len(recs)
           /\ \A i \in DOMAIN us :
                /\ TableKind(recs[i].class, recs[i].ttl) # "none"
                /\ us[i].Name = recs[i].name
                /\ us[i].RecordType = recs[i].rrtype
                /\ TableKind(recs[i].class, recs[i].ttl) = "delete"
                     => ApplyUpdateBranch(us[i]) = "deleteEndpoint"
                /\ TableKind(recs[i].class, recs[i].ttl) = "upsert"
                     => /\ ApplyUpdateBranch(us[i]) = "createOrUpdateEndpoint"
                        /\ us[i].IP = recs[i].ip
                        /\ us[i].TTL = recs[i].ttl

C10_Witness ==
    /\ pure.op = "Parse"
    /\ pure.done
    /\ pure.msg.ns = <<WireRR(NameRouter, TypeA, ClassCHAOS, 300, IP1),
                       WireRR(NameRouter, TypeAAAA, ClassINET, 300, IP6)>>
    /\ ~pure.result.err
    /\ Len(pure.result.updates) = 1
    /\ pure.result.updates[1].Type = UpdateTypeCreate
    /\ pure.result.updates[1].IP = IP6

C12_AcceptancePolicy ==
    \A w \in Workers : \A qr \in {0, 1} : \A opcode \in 0..15 :
        (cur[w] # NoMsg /\ cur[w].bits = HeaderBits(qr, opcode))
        => IF qr = 1
           THEN /\ pc[w] = "done"
                /\ replies[w] = <<>>
                /\ stages[w] = <<>>
                /\ calls[w] = <<>>
                /\ store = store0[w]
           ELSE IF opcode \in {OpcodeQuery, OpcodeNotify, OpcodeUpdate}
           THEN /\ stages[w] # <<>>
                /\ stages[w][1] = "ServeDNS"
           ELSE /\ pc[w] = "done"
                /\ replies[w] = <<UnsignedReply(RcodeNotImplemented)>>
                /\ stages[w] = <<>>
                /\ updates[w] = <<>>
                /\ calls[w] = <<>>
                /\ store = store0[w]

C12_Witness ==
    /\ pc["w1"] = "done"
    /\ cur["w1"].bits = HeaderBits(1, OpcodeUpdate)
    /\ cur["w1"].tsig = ValidTsig
    /\ replies["w1"] = <<>>
    /\ stages["w1"] = <<>>

\* C13: an accepted message whose opcode is not update (query or notify) is
\* answered NotImplemented, unsigned even when the request was signed, and no
\* zone check, parsing or store call happens for it.
C13_NonUpdateNotImplemented ==
    \A w \in Workers :
        (/\ cur[w] # NoMsg
         /\ cur[w].bits \in {HeaderBits(0, OpcodeQuery), HeaderBits(0, OpcodeNotify)})
        => /\ pc[w] = "done"
           /\ replies[w] = <<[rcode |-> RcodeNotImplemented, signed |-> FALSE,
                              requestMAC |-> ""]>>
           /\ stages[w] = <<"ServeDNS">>
           /\ updates[w] = <<>>
           /\ calls[w] = <<>>
           /\ store = store0[w]

C13_Witness ==
    /\ pc["w1"] = "done"
    /\ cur["w1"].bits = HeaderBits(0, OpcodeNotify)
    /\ cur["w1"].tsig = ValidTsig
    /\ LastRcode("w1") = RcodeNotImplemented
    /\ ~replies["w1"][1].signed

(***************************************************************************)
(* Two senders at once: each worker serves one message of its sender, and  *)
(* the store calls of the two workers interleave.  The messages are about  *)
(* one hostname; pure keeps the store the behaviour started from.          *)
(***************************************************************************)
SenderOf(w) == IF w = "w1" THEN Sender1 ELSE Sender2

\* The resource a stored object of endpoint e is read back as.
StoredObject(e, rv) == [labels |-> e.labels, spec |-> e.spec, resourceVersion |-> rv]

\* An empty namespace, and one that holds the resource of the hostname.
ConcStores ==
    {<< >>,
     LET e == DesiredEndpoint(Sender1, parseRR(AddRouter1, ZoneExample).update)
     IN  (e.name :> StoredObject(e, 0))}

ConcSections ==
    {<<AddRouter1>>, <<AddRouter2>>, <<DelRouterAny>>,
     <<DelRouterAny, AddRouter1>>, <<AddRouter1, AddRouter2>>}

ConcMessages(w) ==
    {[bits |-> HeaderBits(0, OpcodeUpdate), question |-> <<ZoneExample>>,
      ns |-> s, tsig |-> ValidTsig, from |-> SenderOf(w)] : s \in ConcSections}

StartWith(st) ==
    /\ store = st
    /\ nextRV = 1
    /\ nMsgs = 0
    /\ nFaults = 0
    /\ pc = [w \in Workers |-> "idle"]
    /\ cur = [w \in Workers |-> NoMsg]
    /\ store0 = [w \in Workers |-> <<>>]
    /\ resent = [w \in Workers |-> FALSE]
    /\ stages = [w \in Workers |-> <<>>]
    /\ updates = [w \in Workers |-> <<>>]
    /\ idx = [w \in Workers |-> 0]
    /\ existing = [w \in Workers |-> NoObject]
    /\ calls = [w \in Workers |-> <<>>]
    /\ results = [w \in Workers |-> <<>>]
    /\ replies = [w \in Workers |-> <<>>]

InitConc ==
    \E st \in ConcStores :
        /\ StartWith(st)
        /\ pure = [op |-> "start", store |-> st]

NextConc ==
    \E w \in Workers :
        \/ \E m \in ConcMessages(w) : Receive(w, m)
        \/ GetEndpoint(w)
        \/ UpdateEndpoint(w)
        \/ CreateEndpoint(w)
        \/ deleteEndpoint(w)

SpecConc == InitConc /\ [][NextConc]_vars

\* The resource of worker w's current update was written, or deleted, by
\* another writer after w read it.
ModifiedSinceRead(w) ==
    \/ CurrentEndpoint(w).name \notin DOMAIN store
    \/ store[CurrentEndpoint(w).name] # existing[w]

\* C14: an upsert that found an existing, different resource updates it with
\* the resource version of its own read: if another writer modified the
\* resource between the read and the write, the write fails, the store keeps
\* the newer state and the apply returns an error; the apply is not retried.
C14_StaleUpdateFails ==
    [][\A w \in Workers :
        /\ (pc[w] = "apply" /\ pc'[w] = "update")
           => /\ CurrentEndpoint(w).name \in DOMAIN store
              /\ existing'[w] = store[CurrentEndpoint(w).name]
              /\ existing'[w].labels # CurrentEndpoint(w).labels
                 \/ existing'[w].spec # CurrentEndpoint(w).spec
        /\ (pc[w] = "update" /\ Len(calls'[w]) = Len(calls[w]) + 1)
           => LET c == calls'[w][Len(calls'[w])]
                  r == results'[w][Len(results'[w])]
              IN  /\ c.op = "update"
                  /\ c.name = CurrentEndpoint(w).name
                  /\ Len(results'[w]) = Len(results[w]) + 1
                  /\ ModifiedSinceRead(w)
                     => /\ c.err # ""
                        /\ store' = store
                        /\ r.err
                        /\ pc'[w] = "done"
                        /\ replies'[w] = <<writeResponse(RcodeServerFailure,
                                                          RequestMAC(cur[w]))>>
                  /\ (~ModifiedSinceRead(w) /\ c.err # ErrAPI)
                     => /\ c.err = ""
                        /\ ~r.err /\ r.changed
                        /\ store'[c.name].labels = CurrentEndpoint(w).labels
                        /\ store'[c.name].spec = CurrentEndpoint(w).spec
        /\ (pc[w] = "done") => (calls'[w] = calls[w] /\ pc'[w] = "done")
      ]_vars

C14_Witness ==
    /\ pc["w1"] = "done"
    /\ pc["w2"] = "done"
    /\ calls["w1"] # <<>>
    /\ calls["w1"][Len(calls["w1"])] = [op |-> "update", name |-> "gw", err |-> ErrConflict]
    /\ LastRcode("w1") = RcodeServerFailure
    /\ LastRcode("w2") = RcodeSuccess
    /\ "gw" \in DOMAIN store
    /\ store["gw"].spec = DesiredEndpoint(Sender2, updates["w2"][1]).spec
    /\ store["gw"].labels = DesiredEndpoint(Sender2, updates["w2"][1]).labels

\* What the store holds for a name, without the resource version.
Absent == [present |-> FALSE]
ViewOf(st, name) ==
    IF name \in DOMAIN st
    THEN [present |-> TRUE, labels |-> st[name].labels, spec |-> st[name].spec]
    ELSE Absent

\* One apply run alone: a delete leaves nothing, an upsert leaves the
\* resource of its intent.
ApplyAlone(view, client, upd) ==
    IF upd.Type = UpdateTypeDelete THEN Absent
    ELSE [present |-> TRUE,
          labels |-> DesiredEndpoint(client, upd).labels,
          spec |-> DesiredEndpoint(client, upd).spec]

\* The applies that returned success: <<w, i>> is the i-th intent of the
\* message of worker w.
SucceededApplies ==
    UNION {{<<w, i>> : i \in {k \in DOMAIN results[w] : ~results[w][k].err}} :
            w \in Workers}

\* The orders of a set of applies that keep the order of each message.
SerialOrders(A) ==
    {f \in [1..Cardinality(A) -> A] :
        \A i, j \in 1..Cardinality(A) :
            /\ (i # j) => (f[i] # f[j])
            /\ (f[i][1] = f[j][1] /\ f[i][2] < f[j][2]) => (i < j)}

RECURSIVE RunSerially(_, _)
RunSerially(view, order) ==
    IF order = <<>> THEN view
    ELSE RunSerially(ApplyAlone(view, cur[order[1][1]].from,
                                updates[order[1][1]][order[1][2]]),
                     Tail(order))

\* C15: whatever the interleaving of two senders applying upserts and deletes
\* for one hostname, once both are done the stored state of the identifier
\* is the result of some serial order of exactly the applies that returned
\* success; and an apply that lost the race (an update of a resource modified
\* since its read, a create of a resource created meanwhile) returns an
\* error, which its message reports as ServerFailure.
C15_ConcurrentSendersSerializable ==
    /\ []((\A w \in Workers : pc[w] = "done")
          => \E order \in SerialOrders(SucceededApplies) :
                RunSerially(ViewOf(pure.store, "gw"), order) = ViewOf(store, "gw"))
    /\ [][\A w \in Workers :
            (/\ Len(calls'[w]) = Len(calls[w]) + 1
             /\ \/ pc[w] = "update" /\ ModifiedSinceRead(w)
                \/ pc[w] = "create" /\ CurrentEndpoint(w).name \in DOMAIN store)
            => /\ store' = store
               /\ Len(results'[w]) = Len(results[w]) + 1
               /\ results'[w][Len(results'[w])].err
               /\ pc'[w] = "done"
               /\ replies'[w] = <<writeResponse(RcodeServerFailure,
                                                 RequestMAC(cur[w]))>>
         ]_vars

C15_Witness ==
    /\ pc["w1"] = "done"
    /\ pc["w2"] = "done"
    /\ pure.store = << >>
    /\ cur["w1"].ns = <<AddRouter1>>
    /\ cur["w2"].ns = <<AddRouter2>>
    /\ calls["w1"] = <<[op |-> "get", name |-> "gw", err |-> ErrNotFound],
                       [op |-> "create", name |-> "gw", err |-> ErrAlreadyExists]>>
    /\ LastRcode("w1") = RcodeServerFailure
    /\ LastRcode("w2") = RcodeSuccess
    /\ ViewOf(store, "gw") = ApplyAlone(Absent, Sender2, updates["w2"][1])

(***************************************************************************)
(* One sender that sends a message again when it was answered              *)
(* ServerFailure; no other sender acts.                                    *)
(***************************************************************************)
RetrySections ==
    {<<AddRouter2>>, <<AddRouter1, AddNas>>, <<AddNas, AddRouter2>>,
     <<DelRouterAny, AddRouter1>>, <<AddRouter2, DelRouterAny>>,
     <<AddRouter1, AddNas, AddRouter2>>}

RetryMessages ==
    {[bits |-> HeaderBits(0, OpcodeUpdate), question |-> <<ZoneExample>>,
      ns |-> s, tsig |-> ValidTsig, from |-> Sender1] : s \in RetrySections}

InitRetry ==
    \E st \in ConcStores :
        /\ StartWith(st)
        /\ pure = NoCall

NextRetry ==
    \/ \E m \in RetryMessages : Receive("w1", m)
    \/ RetransmitFailed("w1")
    \/ GetEndpoint("w1")
    \/ UpdateEndpoint("w1")
    \/ CreateEndpoint("w1")
    \/ deleteEndpoint("w1")

SpecRetry == InitRetry /\ [][NextRetry]_vars

\* What one name holds after the intents us were applied one after the
\* other, all with success.
RECURSIVE ApplyAllTo(_, _, _, _)
ApplyAllTo(view, name, client, us) ==
    IF us = <<>> THEN view
    ELSE ApplyAllTo(IF ResourceName(Head(us)) = name
                    THEN ApplyAlone(view, client, Head(us)) ELSE view,
                    name, client, Tail(us))

NamesOf(us) == {ResourceName(us[i]) : i \in DOMAIN us}

\* C16: when a message was answered ServerFailure after a prefix of its
\* intents was applied, and its sender sends the whole message again while no
\* other sender acts and no store call fails, the retransmission is answered
\* Success and the store ends as one uninterrupted, fully successful
\* application of the message to the original store would leave it.
C16_RetransmissionSafety ==
    \A w \in Workers :
        (pc[w] = "done" /\ resent[w] /\ NoFault(w))
        => /\ LastRcode(w) = RcodeSuccess
           /\ Len(results[w]) = Len(updates[w])
           /\ \A n \in DOMAIN store \cup DOMAIN store0[w] \cup NamesOf(updates[w]) :
                ViewOf(store, n)
                  = ApplyAllTo(ViewOf(store0[w], n), n, cur[w].from, updates[w])

C16_Witness ==
    /\ pc["w1"] = "done"
    /\ resent["w1"]
    /\ cur["w1"].ns = <<AddRouter1, AddNas, AddRouter2>>
    /\ store0["w1"] = << >>
    /\ CallOps("w1") = <<"get", "get", "create", "get", "update">>
    /\ LastRcode("w1") = RcodeSuccess
    /\ DOMAIN store = {"gw", "nas"}
    /\ store["gw"].spec.endpoints[1].targets = <<IP2>>

\* C17: a correctly signed update for the allowed zone example.com. with the
\* one record 'router.example.com. 300 IN A 192.168.1.1', served while the
\* store lacks the resource, is answered Success and makes exactly one store
\* create and no other mutation; the created resource holds exactly the
\* endpoint {dnsName: router.example.com., recordType: A, recordTTL: 300,
\* targets: [192.168.1.1]} and is created in the configured namespace.
C17_EndToEndCreate ==
    \A w \in Workers :
        (/\ cur[w] = RouterMessage
         /\ pc[w] = "done"
         /\ "router" \notin DOMAIN store0[w]
         /\ NoFault(w))
        => /\ replies[w] = <<[rcode |-> RcodeSuccess, signed |-> TRUE,
                              requestMAC |-> GoodMAC]>>
           /\ calls[w] = <<[op |-> "get", name |-> "router", err |-> ErrNotFound],
                           [op |-> "create", name |-> "router", err |-> ""]>>
           /\ DOMAIN store = DOMAIN store0[w] \cup {"router"}
           /\ \A n \in DOMAIN store0[w] : store[n] = store0[w][n]
           /\ store["router"].spec
                = [endpoints |-> << [dnsName |-> "router.example.com.",
                                     recordType |-> "A",
                                     recordTTL |-> 300,
                                     targets |-> <<"192.168.1.1">>] >>]
           /\ DesiredEndpoint(cur[w].from, updates[w][1]).namespace = Namespace
           /\ Namespace = "default"

C17_Witness ==
    /\ cur["w1"] = RouterMessage
    /\ pc["w1"] = "done"
    /\ store0["w1"] = << >>
    /\ LastRcode("w1") = RcodeSuccess
    /\ DOMAIN store = {"router"}

(***************************************************************************)
(* config.LoadConfig and the start of main: the environment is drawn, the  *)
(* configuration is loaded from it, and main either exits or goes on to    *)
(* listen.  The environment gives "" for a variable that is not set.       *)
(***************************************************************************)
\* strings.Split(s, sep) for a separator of one character.
RECURSIVE Split(_, _)
Split(s, sep) ==
    IF \A i \in DOMAIN s : s[i] # sep THEN <<s>>
    ELSE <<SplitFirst(s, sep)>>
         \o Split(SubSeq(s, Len(SplitFirst(s, sep)) + 2, Len(s)), sep)

RECURSIVE TrimLeft(_)
TrimLeft(s) == IF s # <<>> /\ Head(s) = " " THEN TrimLeft(Tail(s)) ELSE s

RECURSIVE TrimRight(_)
TrimRight(s) ==
    IF s # <<>> /\ s[Len(s)] = " " THEN TrimRight(SubSeq(s, 1, Len(s) - 1)) ELSE s

TrimSpace(s) == TrimRight(TrimLeft(s))

DigitValue(c) == CHOOSE d \in 0..9 : DigitChars[d + 1] = c

RECURSIVE DigitsValue(_, _)
DigitsValue(s, acc) ==
    IF s = <<>> THEN acc ELSE DigitsValue(Tail(s), acc * 10 + DigitValue(Head(s)))

\* strconv.Atoi: an optional sign and decimal digits.
Atoi(s) ==
    LET digits == IF s # <<>> /\ Head(s) \in {"+", "-"} THEN Tail(s) ELSE s
    IN  IF digits = <<>> \/ \E i \in DOMAIN digits : digits[i] \notin Range(DigitChars)
        THEN [ok |-> FALSE, value |-> 0]
        ELSE [ok |-> TRUE,
              value |-> IF Head(s) = "-" THEN 0 - DigitsValue(digits, 0)
                        ELSE DigitsValue(digits, 0)]

getEnv(value, defaultValue) == IF value # <<>> THEN value ELSE defaultValue

getEnvInt(value, defaultValue) ==
    IF value # <<>> /\ Atoi(value).ok THEN Atoi(value).value ELSE defaultValue

getEnvSlice(value, separator) ==
    IF value = <<>> THEN <<>>
    ELSE LET parts == Split(value, separator)
             trimmed == [i \in DOMAIN parts |-> TrimSpace(parts[i])]
             NonEmpty(p) == p # <<>>
         IN  SelectSeq(trimmed, NonEmpty)

\* Config.Validate: "" stands for nil.
ConfigValidate(c) ==
    IF c.TSIGKey = <<>> THEN "TSIG_KEY is required"
    ELSE IF c.TSIGSecret = <<>> THEN "TSIG_SECRET is required"
    ELSE IF Len(c.AllowedZones) = 0
         THEN "at least one zone must be configured in ALLOWED_ZONES"
    ELSE IF c.Port < 1 \/ c.Port > 65535 THEN "PORT must be between 1 and 65535"
    ELSE ""

DefaultTSIGKey == <<"o","p","n","s","e","n","s","e","-","d","d","n","s">>
DefaultTSIGSecret == <<"c","h","a","n","g","e","m","e">>

LoadConfig(env) ==
    LET cfg == [Port |-> getEnvInt(env.PORT, 5353),
                TSIGKey |-> getEnv(env.TSIG_KEY, DefaultTSIGKey),
                TSIGSecret |-> getEnv(env.TSIG_SECRET, DefaultTSIGSecret),
                AllowedZones |-> getEnvSlice(env.ALLOWED_ZONES, ",")]
    IN  [cfg |-> cfg, err |-> ConfigValidate(cfg)]

Environments ==
    {[TSIG_KEY |-> k, TSIG_SECRET |-> x, ALLOWED_ZONES |-> z, PORT |-> p] :
        k \in {<<>>, <<"k">>},
        x \in {<<>>, <<"s">>},
        z \in {<<>>, <<",">>, <<" ", ",", " ">>, <<" ">>, ExCom,
               ExCom \o <<",", " ">> \o ExampleCom},
        p \in {<<>>, <<"0">>, <<"1">>, <<"5", "3">>, <<"6","5","5","3","5">>,
               <<"6","5","5","3","6">>, <<"-", "1">>, <<"x">>}}

NoConfig == [Port |-> 0, TSIGKey |-> <<>>, TSIGSecret |-> <<>>, AllowedZones |-> <<>>]

InitConfig ==
    /\ HandlerInit
    /\ pure \in {[op |-> "main", env |-> e, at |-> "start",
                  cfg |-> NoConfig, err |-> ""] : e \in Environments}

\* main: cfg, err := config.LoadConfig()
MainLoadConfig ==
    /\ pure.op = "main"
    /\ pure.at = "start"
    /\ pure' = [pure EXCEPT !.at = "loaded",
                            !.cfg = LoadConfig(pure.env).cfg,
                            !.err = LoadConfig(pure.env).err]
    /\ UNCHANGED handlerVars

\* main: logrus.Fatalf on the error of LoadConfig.
MainFatal ==
    /\ pure.op = "main"
    /\ pure.at = "loaded"
    /\ pure.err # ""
    /\ pure' = [pure EXCEPT !.at = "exited"]
    /\ UNCHANGED handlerVars

\* main: the servers start to listen.
MainListen ==
    /\ pure.op = "main"
    /\ pure.at = "loaded"
    /\ pure.err = ""
    /\ pure' = [pure EXCEPT !.at = "listening"]
    /\ UNCHANGED handlerVars

NextConfig == MainLoadConfig \/ MainFatal \/ MainListen

SpecConfig == InitConfig /\ [][NextConfig]_vars

\* C18: loading the configuration fails, and the process never starts to
\* listen, whenever the TSIG key name is not supplied, the TSIG secret is not
\* supplied, the allowed-zone list is empty, or the port is outside 1..65535.
C18_StartupValidation ==
    (/\ pure.op = "main"
     /\ pure.at # "start"
     /\ \/ pure.env.TSIG_KEY = <<>>
        \/ pure.env.TSIG_SECRET = <<>>
        \/ pure.cfg.AllowedZones = <<>>
        \/ pure.cfg.Port \notin 1..65535)
    => (pure.err # "" /\ pure.at # "listening")

(***************************************************************************)
(* sanitizeResourceName and sanitizeLabel applied to names: every short    *)
(* string over an alphabet with one character of each class the code       *)
(* distinguishes, and long strings around the two limits.                  *)
(***************************************************************************)
MaxSanitizeLen == 3

SanitizeChars == {"A", "a", "7", ".", "_", ":", "-", "@"}

Repeat(c, n) == [i \in 1..n |-> c]

LongLengths ==
    (MaxLabelLen - 2 .. MaxLabelLen + 1) \cup (MaxNameLen - 5 .. MaxNameLen + 1)

SanitizeInputs ==
    UNION {[1..n -> SanitizeChars] : n \in 0..MaxSanitizeLen}
    \cup {pre \o Repeat(c, n) \o suf :
            pre \in {<<>>, <<"_">>, <<"@", "B">>},
            c \in {"a", "."},
            n \in LongLengths,
            suf \in {<<>>, <<".">>, <<":", "z">>}}

InitSanitize ==
    /\ HandlerInit
    /\ pure \in {[op |-> "sanitize", input |-> s, out |-> <<>>] : s \in SanitizeInputs}

CallSanitizeResourceName ==
    /\ pure.op = "sanitize"
    /\ pure' = [pure EXCEPT !.op = "sanitizeResourceName",
                            !.out = sanitizeResourceName(pure.input)]
    /\ UNCHANGED handlerVars

CallSanitizeLabel ==
    /\ pure.op = "sanitize"
    /\ pure' = [pure EXCEPT !.op = "sanitizeLabel",
                            !.out = sanitizeLabel(pure.input)]
    /\ UNCHANGED handlerVars

NextSanitize == CallSanitizeResourceName \/ CallSanitizeLabel

SpecSanitize == InitSanitize /\ [][NextSanitize]_vars

\* The characters of a name that leave a character in the identifier.
KeptChars == Range(UpperChars) \cup AlnumLowerSet \cup {"-", ".", "_", ":"}

\* The name without the one trailing dot that both functions cut off.
WithoutTrailingDot(s) ==
    IF s # <<>> /\ s[Len(s)] = "." THEN SubSeq(s, 1, Len(s) - 1) ELSE s

\* The place in the output of each character of s that is kept: the number of
\* kept characters up to it, after the prefix.
Places(s, kept, prefix) ==
    [i \in kept |-> prefix + Cardinality({j \in kept : j <= i})]

\* "dns-" is put in front when the first kept character is not a letter or digit.
PrefixLen(s, kept) ==
    IF \E i \in kept : s[i] \in {"-", ".", "_", ":"} /\ \A j \in kept : i <= j
    THEN 4 ELSE 0

\* Each '.', '_' and ':' of s stands as '-' at its place in out, as far as limit.
SeparatorsBecomeHyphens(s, out, prefix, limit) ==
    \E kept \in {{i \in DOMAIN s : s[i] \in KeptChars}} :
    \E place \in {Places(s, kept, prefix)} :
       \A i \in kept :
          (s[i] \in {".", "_", ":"} /\ place[i] <= limit)
          => (place[i] \in DOMAIN out /\ out[place[i]] = "-")

\* C19: for every input name the identifier produced by sanitizeResourceName
\* consists only of lowercase letters, digits and hyphens, has no trailing dot
\* and is at most 253 characters long; every label value produced by
\* sanitizeLabel is at most 63 characters long; and each '.', '_' and ':' of
\* the name (the cut trailing dot aside) stands as '-' at its place in the
\* output, as far as the output reaches.
C19_SanitizationBounds ==
    /\ pure.op = "sanitizeResourceName" =>
          /\ \A i \in DOMAIN pure.out : pure.out[i] \in AlnumLowerSet \cup {"-"}
          /\ pure.out = <<>> \/ pure.out[Len(pure.out)] # "."
          /\ Len(pure.out) <= 253
          /\ \E s \in {WithoutTrailingDot(pure.input)} :
                SeparatorsBecomeHyphens(s, pure.out,
                    PrefixLen(s, {i \in DOMAIN s : s[i] \in KeptChars}), 253)
    /\ pure.op = "sanitizeLabel" =>
          /\ Len(pure.out) <= 63
          /\ SeparatorsBecomeHyphens(WithoutTrailingDot(pure.input), pure.out, 0, 63)

\* A name longer than the limit that starts with '_' and ends with a dot: the
\* identifier is prefixed, cut to the limit, and carries '-' for the '_'.
C19_Witness ==
    /\ pure.op = "sanitizeResourceName"
    /\ Len(pure.input) > MaxNameLen
    /\ pure.input[1] = "_"
    /\ pure.input[Len(pure.input)] = "."
    /\ Len(pure.out) = MaxNameLen
    /\ SubSeq(pure.out, 1, 5) = <<"d", "n", "s", "-", "-">>

\* C20: every intent returned by the parser that is a delete carries no
\* address, and every intent that is an upsert carries a non-nil address and a
\* TTL greater than 0.
C20_IntentInvariant ==
    (pure.op = "Parse" /\ pure.done /\ ~pure.result.err)
    => \A i \in DOMAIN pure.result.updates :
          LET u == pure.result.updates[i]
          IN  /\ u.Type = UpdateTypeDelete => u.IP = NilIP
              /\ u.Type = UpdateTypeCreate => (u.IP # NilIP /\ u.TTL > 0)

(***************************************************************************)
(* Parser.Parse on whole messages: the update sections of SpecParse, and   *)
(* messages that are not updates or have no zone section.                  *)
(***************************************************************************)
ParseMessages ==
    ParseInputs
    \cup {[bits |-> HeaderBits(0, opcode), question |-> q, ns |-> s,
           tsig |-> ValidTsig, from |-> Sender1] :
            opcode \in {OpcodeQuery, OpcodeNotify, OpcodeUpdate},
            q \in {<<>>, <<ZoneExample>>},
            s \in SeqsUpTo({AddRouter1, DelRouter6, MxRouter}, MaxParseRecords)}

InitParseMsg ==
    /\ HandlerInit
    /\ pure \in {[op |-> "Parse", msg |-> m, done |-> FALSE,
                  result |-> [updates |-> <<>>, err |-> FALSE]] : m \in ParseMessages}

SpecParseMsg == InitParseMsg /\ [][NextParse]_vars

\* The intents us come from A and AAAA records of ns, in the order of ns:
\* a strictly increasing choice of records, one per intent.
InOrderOfRecords(us, ns) ==
    \E f \in [DOMAIN us -> DOMAIN ns] :
        /\ \A i, j \in DOMAIN us : i < j => f[i] < f[j]
        /\ \A i \in DOMAIN us :
              /\ ns[f[i]].rrtype \in {TypeA, TypeAAAA}
              /\ us[i].Name = ns[f[i]].name
              /\ us[i].RecordType = ns[f[i]].rrtype
              /\ us[i].TTL = ns[f[i]].ttl

\* C21: Parse returns intents only for A and AAAA records, in the order the
\* records appear in the update section; records of every other type are
\* skipped without error; and Parse fails with an error when the message is
\* not an update, has no zone section, or yields zero intents after all
\* records were processed.
C21_ParseAddressRecordsInOrder ==
    (pure.op = "Parse" /\ pure.done)
    => LET msg == pure.msg
           us == pure.result.updates
       IN  IF MsgOpcode(msg) # OpcodeUpdate \/ msg.question = <<>>
           THEN pure.result.err /\ us = <<>>
           ELSE /\ InOrderOfRecords(us, msg.ns)
                /\ \A i \in DOMAIN us : us[i].Zone = msg.question[1]
                /\ Len(us) = Len(AddressRecords(msg.ns))
                /\ pure.result.err <=> us = <<>>
                /\ pure.result.err <=> AddressRecords(msg.ns) = <<>>

\* An MX record before an A record: skipped, and the A record gives the intent.
C21_Witness ==
    /\ pure.op = "Parse"
    /\ pure.done
    /\ pure.msg.ns = <<MxRouter, AddRouter1>>
    /\ MsgOpcode(pure.msg) = OpcodeUpdate
    /\ pure.msg.question # <<>>
    /\ ~pure.result.err
    /\ Len(pure.result.updates) = 1
    /\ pure.result.updates[1].RecordType = TypeA

\* C22: every delete intent, whatever its wire form (class ANY, class NONE,
\* or class IN with TTL 0) and whatever its record type, deletes the whole
\* managed resource of the hostname: when the apply of a delete returns no
\* error, no resource of that hostname remains, whatever record type the
\* resource held, and every other resource is as it was.
C22_DeleteRemovesWholeResource ==
    [][\A w \in Workers :
        (/\ pc[w] = "apply"
         /\ CurrentUpdate(w).Type = UpdateTypeDelete
         /\ Len(results'[w]) = Len(results[w]) + 1
         /\ ~results'[w][Len(results'[w])].err)
        => LET name == ResourceName(CurrentUpdate(w))
           IN  /\ name \notin DOMAIN store'
               /\ DOMAIN store' = DOMAIN store \ {name}
               /\ \A n \in DOMAIN store' : store'[n] = store[n]
      ]_vars

\* A delete of type AAAA for gw.ex.com. has succeeded on a store whose "gw"
\* resource held an A endpoint, and the resource is gone.
C22_Witness ==
    /\ cur["w1"].ns = <<DelRouter6>>
    /\ pc["w1"] = "done"
    /\ Len(results["w1"]) = 1
    /\ ~results["w1"][1].err
    /\ "gw" \in DOMAIN store0["w1"]
    /\ store0["w1"]["gw"].spec.endpoints[1].recordType = "A"
    /\ "gw" \notin DOMAIN store
    /\ LastRcode("w1") = RcodeSuccess

\* C23: the label set of every resource the reconciler writes is the fixed
\* managed-by label plus the zone label derived from the intent's zone plus
\* the operator-configured custom labels, and on a key collision the custom
\* label's value replaces the default one.
C23_LabelSet ==
    \A n \in DOMAIN store :
        LET labels == store[n].labels
            defaults == {"app.kubernetes.io/managed-by", "ddnsbridge4extdns/zone"}
        IN  /\ DOMAIN labels = defaults \cup DOMAIN CustomLabels
            /\ \A k \in DOMAIN CustomLabels : labels[k] = CustomLabels[k]
            /\ "app.kubernetes.io/managed-by" \notin DOMAIN CustomLabels
                 => labels["app.kubernetes.io/managed-by"] = "ddnsbridge4extdns"
            /\ "ddnsbridge4extdns/zone" \notin DOMAIN CustomLabels
                 => labels["ddnsbridge4extdns/zone"]
                      \in {Str(sanitizeLabel(z)) : z \in {ZoneExample, ZoneExampleCom}}

\* C24: when no port is configured, the UDP and TCP listeners use port 53.
C24_DefaultPort ==
    (/\ pure.op = "main"
     /\ pure.at = "listening"
     /\ pure.env.PORT = <<>>)
    => pure.cfg.Port = 53

\* C25: the identifier of the resource that an intent reads, creates, updates
\* or deletes is the sanitized form of the intent's fully-qualified record
\* name (trailing dot stripped, lower-cased, '.', '_' and ':' mapped to '-'):
\* router.example.com. in zone example.com. maps to router-example-com.
C25_IdentifierFromFullName ==
    \A w \in Workers :
        /\ \A i \in DOMAIN calls[w] :
              calls[w][i].name
                \in {Str(sanitizeResourceName(updates[w][k].Name)) : k \in 1..idx[w]}
        /\ (cur[w] = RouterMessage /\ calls[w] # <<>>)
              => calls[w][1].name = "router-example-com"

\* C26: upsert follows get-then-write.  The apply of an upsert first reads
\* the resource.  If the read reports not-found it issues exactly one create
\* and, the create succeeding, reports changed = true; if the read succeeds
\* and labels and endpoint spec both equal the desired ones it issues no
\* write and reports changed = false; if the read succeeds and either differs
\* it issues exactly one update and, the update succeeding, reports
\* changed = true; if the read fails with any other error it issues no write
\* and returns an error.  A write that fails returns an error.
C26_GetThenWrite ==
    [][\A w \in Workers :
        LET desired == CurrentEndpoint(w)
            c == calls'[w][Len(calls'[w])]
            r == results'[w][Len(results'[w])]
            oneCall == Len(calls'[w]) = Len(calls[w]) + 1
            returned == Len(results'[w]) = Len(results[w]) + 1
        IN  /\ (/\ pc[w] = "apply"
                /\ CurrentUpdate(w).Type \in {UpdateTypeCreate, UpdateTypeUpdate}
                /\ vars' # vars)
               => /\ oneCall /\ c.op = "get" /\ c.name = desired.name
                  /\ store' = store
                  /\ c.err = ErrNotFound
                       => (pc'[w] = "create" /\ results'[w] = results[w])
                  /\ (/\ c.err = ""
                      /\ store[desired.name].labels = desired.labels
                      /\ store[desired.name].spec = desired.spec)
                       => (returned /\ ~r.changed /\ ~r.err /\ pc'[w] \in {"apply", "done"})
                  /\ (/\ c.err = ""
                      /\ \/ store[desired.name].labels # desired.labels
                         \/ store[desired.name].spec # desired.spec)
                       => (pc'[w] = "update" /\ results'[w] = results[w])
                  /\ c.err \notin {"", ErrNotFound}
                       => (returned /\ ~r.changed /\ r.err /\ pc'[w] = "done")
            /\ (pc[w] \in {"create", "update"} /\ vars' # vars)
               => /\ oneCall /\ c.op = pc[w] /\ c.name = desired.name
                  /\ returned
                  /\ pc'[w] \in {"apply", "done"}
                  /\ c.err = "" => (r.changed /\ ~r.err)
                  /\ c.err # "" => (~r.changed /\ r.err /\ store' = store)
      ]_vars

\* An upsert that found the resource with another address: one get, one
\* update, changed = true.
C26_Witness ==
    /\ pc["w1"] = "done"
    /\ cur["w1"].ns = <<AddRouter2>>
    /\ calls["w1"] = <<[op |-> "get", name |-> "gw", err |-> ""],
                       [op |-> "update", name |-> "gw", err |-> ""]>>
    /\ results["w1"] = <<[changed |-> TRUE, err |-> FALSE]>>
    /\ store0["w1"]["gw"].spec.endpoints[1].targets = <<IP1>>
    /\ store["gw"].spec.endpoints[1].targets = <<IP2>>

(***************************************************************************)
(* Validator.Validate on its own: a validator and a TSIG record are drawn. *)
(***************************************************************************)
ValidatorKeyNames == {"opnsense-ddns", "key."}
ValidatorAlgorithms == {"hmac-sha1", "hmac-sha256", "hmac-sha512", "hmac-md5"}

TsigRecords ==
    {NoTsig}
    \cup {[name |-> n, algorithm |-> a, mac |-> m] :
            n \in {"opnsense-ddns.", "opnsense-ddns", "key.", "key..", "wrong-key."},
            a \in {HmacSHA1, HmacSHA256, HmacSHA512, HmacMD5},
            m \in {GoodMAC, BadMAC}}

InitValidate ==
    /\ HandlerInit
    /\ pure \in {[op |-> "Validate", keyName |-> k, algorithm |-> a, tsig |-> t,
                  done |-> FALSE, err |-> ""] :
                    k \in ValidatorKeyNames, a \in ValidatorAlgorithms,
                    t \in TsigRecords}

CallValidate ==
    /\ pure.op = "Validate"
    /\ ~pure.done
    /\ pure' = [pure EXCEPT !.done = TRUE,
                            !.err = ValidateWith(pure.keyName, pure.algorithm, pure.tsig)]
    /\ UNCHANGED handlerVars

NextValidate == CallValidate

SpecValidate == InitValidate /\ [][NextValidate]_vars

\* The name of an algorithm on the wire.
WireAlgorithm(a) == IF a = "hmac-md5" THEN "hmac-md5.sig-alg.reg.int." ELSE a \o "."

\* C27: Validate returns an error when the message has no TSIG record, when
\* the record's key name equals neither the configured key name nor the
\* configured key name with a trailing dot appended, when the algorithm
\* differs from the configured one, or when the MAC does not verify; the
\* checks are made in that order, so a message with both a wrong key name and
\* a wrong algorithm is reported as a key-name mismatch.  It returns no error
\* otherwise.
C27_ValidateChecksInOrder ==
    (pure.op = "Validate" /\ pure.done)
    => LET t == pure.tsig
           nameOK == t.name \in {pure.keyName, pure.keyName \o "."}
           algOK == t.algorithm = WireAlgorithm(pure.algorithm)
           macOK == t.mac = GoodMAC
       IN  IF t = NoTsig THEN pure.err = "message does not contain TSIG record"
           ELSE IF ~nameOK THEN pure.err = "TSIG key name mismatch"
           ELSE IF ~algOK THEN pure.err = "TSIG algorithm mismatch"
           ELSE IF ~macOK THEN pure.err = "TSIG verification failed"
           ELSE pure.err = ""

\* A record with a wrong key name, a wrong algorithm and a bad MAC.
C27_Witness ==
    /\ pure.op = "Validate"
    /\ pure.done
    /\ pure.keyName = "opnsense-ddns"
    /\ pure.algorithm = "hmac-sha256"
    /\ pure.tsig = [name |-> "wrong-key.", algorithm |-> HmacSHA512, mac |-> BadMAC]
    /\ pure.err = "TSIG key name mismatch"

(***************************************************************************)
(* DNSUpdate.GetHostname on its own: a record name and a zone are drawn as *)
(* sequences of labels and written as names, with or without the trailing  *)
(* dot; the zone of no labels is the root.                                 *)
(***************************************************************************)
MaxNameLabels == 3
MaxZoneLabels == 2

HostLabels == {<<"a">>, <<"b">>, <<"a", "b">>}

\* The labels joined by dots, without a trailing dot.
RECURSIVE JoinLabels(_)
JoinLabels(ls) ==
    IF ls = <<>> THEN <<>>
    ELSE IF Len(ls) = 1 THEN ls[1]
    ELSE ls[1] \o <<".">> \o JoinLabels(Tail(ls))

WriteName(ls, dot) == IF dot THEN JoinLabels(ls) \o <<".">> ELSE JoinLabels(ls)

HostnameInputs ==
    {[nameLabels |-> n, zoneLabels |-> z, nameDot |-> nd, zoneDot |-> zd] :
        n \in SeqsUpTo(HostLabels, MaxNameLabels),
        z \in SeqsUpTo(HostLabels, MaxZoneLabels),
        nd \in BOOLEAN, zd \in BOOLEAN}

InitHostname ==
    /\ HandlerInit
    /\ pure \in {[op |-> "GetHostname", in |-> i, done |-> FALSE, out |-> <<>>,
                  Name |-> WriteName(i.nameLabels, i.nameDot \/ i.nameLabels = <<>>),
                  Zone |-> WriteName(i.zoneLabels, i.zoneDot \/ i.zoneLabels = <<>>)] :
                    i \in HostnameInputs}

CallGetHostname ==
    /\ pure.op = "GetHostname"
    /\ ~pure.done
    /\ pure' = [pure EXCEPT !.done = TRUE,
                            !.out = GetHostname([Name |-> pure.Name, Zone |-> pure.Zone])]
    /\ UNCHANGED handlerVars

NextHostname == CallGetHostname

SpecHostname == InitHostname /\ [][NextHostname]_vars

\* The labels of the name in front of the labels of the zone.
LabelsBefore(n, z) == SubSeq(n, 1, Len(n) - Len(z))

IsLabelSuffix(n, z) ==
    Len(z) <= Len(n) /\ SubSeq(n, Len(n) - Len(z) + 1, Len(n)) = z

\* C28: GetHostname returns the record name relative to the zone: the name
\* with the trailing '.<zone>' removed when the name is a sub-domain of the
\* zone, '@' when the name equals the zone (apex), and the full name without
\* trailing dot when the name is not inside the zone.
C28_HostnameRelativeToZone ==
    (pure.op = "GetHostname" /\ pure.done)
    => LET n == pure.in.nameLabels
           z == pure.in.zoneLabels
       IN  IF n = z THEN pure.out = <<"@">>
           ELSE IF IsLabelSuffix(n, z) THEN pure.out = JoinLabels(LabelsBefore(n, z))
           ELSE pure.out = JoinLabels(n)

\* a.ab.b. in zone b.: the labels in front of the zone, and no cut inside
\* the label ab.
C28_Witness ==
    /\ pure.op = "GetHostname"
    /\ pure.done
    /\ pure.Name = <<"a", ".", "a", "b", ".", "b", ".">>
    /\ pure.Zone = <<"b", ".">>
    /\ pure.out = <<"a", ".", "a", "b">>

(***************************************************************************)
(* Updates for two allowed zones, and updates whose record lies outside    *)
(* the zone the message declares.                                          *)
(***************************************************************************)
NameGwExampleCom == <<"g","w",".">> \o ZoneExampleCom
NameGwNotAllowed == <<"g","w",".">> \o ZoneNotAllowed

AddGwExampleCom == WireRR(NameGwExampleCom, TypeA, ClassINET, 300, IP2)
DelGwExampleCom == WireRR(NameGwExampleCom, TypeA, ClassANY, 0, NilIP)
AddGwNotAllowed == WireRR(NameGwNotAllowed, TypeA, ClassINET, 300, IP1)
DelGwNotAllowed == WireRR(NameGwNotAllowed, TypeA, ClassANY, 0, NilIP)

\* Signed updates from the first sender: records of ex.com. in zone ex.com.,
\* records of example.com. in zone example.com., and records of example.com.
\* and of the zone no.com., which is not allowed, in zone ex.com.
IsolationMessages ==
    {[bits |-> HeaderBits(0, OpcodeUpdate), question |-> <<z>>,
      ns |-> <<r>>, tsig |-> ValidTsig, from |-> Sender1] :
        z \in {ZoneExample}, r \in {AddRouter1, DelRouterAny, AddNas}}
    \cup
    {[bits |-> HeaderBits(0, OpcodeUpdate), question |-> <<z>>,
      ns |-> <<r>>, tsig |-> ValidTsig, from |-> Sender1] :
        z \in {ZoneExampleCom}, r \in {AddGwExampleCom, DelGwExampleCom}}
    \cup
    {[bits |-> HeaderBits(0, OpcodeUpdate), question |-> <<z>>,
      ns |-> <<r>>, tsig |-> ValidTsig, from |-> Sender1] :
        z \in {ZoneExample},
        r \in {AddGwNotAllowed, DelGwNotAllowed, RouterExampleCom}}

NextIsolation ==
    \/ \E m \in IsolationMessages : Receive("w1", m)
    \/ Return("w1")
    \/ GetEndpoint("w1")
    \/ UpdateEndpoint("w1")
    \/ CreateEndpoint("w1")
    \/ deleteEndpoint("w1")

SpecIsolation == Init /\ [][NextIsolation]_vars

\* The zone label of the zone a message declares.
DeclaredZoneLabel(w) == Str(sanitizeLabel(cur[w].question[1]))

\* C29: a resource that was created by an update for zone Z1 is never updated
\* or deleted by a message whose declared zone is a different zone Z2
\* unrelated to Z1: a step that changes or removes a resource of the store is
\* made for a message that declares the zone the resource was written for.
C29_ZoneIsolation ==
    [][\A n \in DOMAIN store :
          (n \notin DOMAIN store' \/ store'[n] # store[n])
          => store[n].labels["ddnsbridge4extdns/zone"] = DeclaredZoneLabel("w1")
      ]_vars

\* The record name lies inside the zone: it is the zone or ends with a dot
\* and the zone.
NameInZone(name, zone) == name = zone \/ HasSuffix(name, <<".">> \o zone)

\* C30: every store mutation caused by a message concerns a record name that
\* lies inside the message's declared (and allowed) zone: a record of the
\* update section whose name is outside the declared zone never causes a
\* resource to be created, updated or deleted.
C30_ZoneScopedEffect ==
    [][store' # store
       => /\ IsZoneAllowed(cur["w1"].question[1])
          /\ NameInZone(CurrentUpdate("w1").Name, cur["w1"].question[1])
      ]_vars

\* C31: sender independence.  The desired resource (identifier, labels and
\* endpoint spec) of an intent is the same whichever sender delivered it, so
\* an upsert that arrives when the store holds the result of the same upsert
\* from any sender issues no write and reports changed = false.
C31_SenderIndependence ==
    \A w \in Workers :
        (/\ Served(w)
         /\ pc[w] = "done"
         /\ Len(updates[w]) = 1
         /\ Len(results[w]) = 1
         /\ NoFault(w)
         /\ ApplyUpdateBranch(updates[w][1]) = "createOrUpdateEndpoint"
         /\ \E s \in Senders :
              LET e == DesiredEndpoint(s, updates[w][1])
              IN  /\ e.name \in DOMAIN store0[w]
                  /\ store0[w][e.name].labels = e.labels
                  /\ store0[w][e.name].spec = e.spec)
        => /\ \A s \in Senders :
                DesiredEndpoint(s, updates[w][1])
                  = DesiredEndpoint(cur[w].from, updates[w][1])
           /\ WriteCalls(w) = <<>>
           /\ results[w][1] = [changed |-> FALSE, err |-> FALSE]

\* C32: the changed flag ApplyUpdate returns is true exactly when the call
\* modified the store: the step on which a call returns reports changed =
\* true if and only if it created, updated or deleted a resource, so a delete
\* whose resource is already absent reports changed = false.
C32_ChangedIffModified ==
    [][\A w \in Workers :
          Len(results'[w]) = Len(results[w]) + 1
          => (results'[w][Len(results'[w])].changed <=> store' # store)
      ]_vars

(***************************************************************************)
(* The resource identifier of two intents: createOrUpdateEndpoint and      *)
(* deleteEndpoint derive it as sanitizeResourceName(upd.GetHostname()).    *)
(* The record names are the zone itself (the apex) and names inside the    *)
(* zone, as the parser copies them from the records of the update section. *)
(***************************************************************************)
RelativeNames ==
    {<<>>, <<"a">>, <<"b">>, <<"a", ".", "b">>, <<"a", "-", "b">>,
     <<"a", "_", "b">>, <<"_", "a">>, <<"*">>}

IdentifierZones == {ZoneExample, ZoneExampleCom}

IdentifierIntents ==
    {[Name |-> IF r = <<>> THEN z ELSE r \o <<".">> \o z, Zone |-> z] :
        r \in RelativeNames, z \in IdentifierZones}

InitIdentifier ==
    /\ HandlerInit
    /\ pure \in {[op |-> "resourceName", upd |-> <<u1, u2>>,
                  done |-> <<FALSE, FALSE>>, out |-> << <<>>, <<>> >>] :
                    u1 \in IdentifierIntents, u2 \in IdentifierIntents}

\* The first two statements of createOrUpdateEndpoint and of deleteEndpoint
\* for the i-th intent.
CallResourceName(i) ==
    /\ pure.op = "resourceName"
    /\ ~pure.done[i]
    /\ pure' = [pure EXCEPT !.done[i] = TRUE,
                            !.out[i] = sanitizeResourceName(GetHostname(pure.upd[i]))]
    /\ UNCHANGED handlerVars

NextIdentifier == \E i \in {1, 2} : CallResourceName(i)

SpecIdentifier == InitIdentifier /\ [][NextIdentifier]_vars

\* C33: for every record name the parser can produce, the zone apex
\* included, the derived resource identifier is non-empty and begins with a
\* lowercase letter or a digit.
C33_IdentifierStartsAlphanumeric ==
    \A i \in {1, 2} :
        (pure.op = "resourceName" /\ pure.done[i])
        => /\ pure.out[i] # <<>>
           /\ isAlphanumericLower(pure.out[i][1])

\* C34: identifier derivation is injective on record names: two intents
\* with different fully-qualified record names never get the same resource
\* identifier.
C34_IdentifierInjective ==
    (/\ pure.op = "resourceName"
     /\ pure.done[1]
     /\ pure.done[2]
     /\ pure.upd[1].Name # pure.upd[2].Name)
    => pure.out[1] # pure.out[2]

\* C35: single-endpoint invariant.  Every resource of the store holds exactly
\* one endpoint with exactly one target, and its recordType is A or AAAA; an
\* AAAA upsert for a hostname whose resource holds an A endpoint replaces
\* that endpoint: the resource then holds the AAAA endpoint alone.
C35_SingleEndpoint ==
    /\ \A n \in DOMAIN store :
          /\ Len(store[n].spec.endpoints) = 1
          /\ Len(store[n].spec.endpoints[1].targets) = 1
          /\ store[n].spec.endpoints[1].recordType \in {"A", "AAAA"}
    /\ \A w \in Workers :
          (/\ Served(w)
           /\ pc[w] = "done"
           /\ Len(updates[w]) = 1
           /\ results[w] = <<[changed |-> TRUE, err |-> FALSE]>>
           /\ updates[w][1].RecordType = TypeAAAA
           /\ ApplyUpdateBranch(updates[w][1]) = "createOrUpdateEndpoint"
           /\ ResourceName(updates[w][1]) \in DOMAIN store0[w]
           /\ store0[w][ResourceName(updates[w][1])].spec.endpoints[1].recordType = "A")
          => store[ResourceName(updates[w][1])].spec.endpoints
               = << [dnsName |-> Str(updates[w][1].Name),
                     recordType |-> "AAAA",
                     recordTTL |-> updates[w][1].TTL,
                     targets |-> <<IPString(updates[w][1].IP)>>] >>

\* The resource gw held the A endpoint of gw.ex.com. and an AAAA upsert for
\* gw.ex.com. was applied with one update call.
C35_Witness ==
    /\ Served("w1")
    /\ pc["w1"] = "done"
    /\ cur["w1"].ns = <<AddRouter6>>
    /\ "gw" \in DOMAIN store0["w1"]
    /\ store0["w1"]["gw"].spec.endpoints[1].recordType = "A"
    /\ CallOps("w1") = <<"get", "update">>
    /\ results["w1"] = <<[changed |-> TRUE, err |-> FALSE]>>
    /\ store["gw"].spec.endpoints[1].recordType = "AAAA"
    /\ Len(store["gw"].spec.endpoints) = 1

\* C36: each call of ApplyUpdate issues at most one mutating store call and
\* never retries a failed store call, and a call that returns an error leaves
\* the store as it was.  A create, update or delete is the last store call of
\* its ApplyUpdate, which returns on that step; a store call that fails (a Get
\* reporting not-found, which leads to the Create, is not a failure) is
\* followed by no other call; a Get changes nothing; the store changes only
\* by a write that succeeds; and a call that returns an error changes nothing.
C36_OneWriteNoRetry ==
    [][/\ \A w \in Workers :
            LET newCall == Len(calls'[w]) = Len(calls[w]) + 1
                c == calls'[w][Len(calls'[w])]
                returned == Len(results'[w]) = Len(results[w]) + 1
                failed == c.err # "" /\ ~(c.op = "get" /\ isNotFoundError(c.err))
            IN  /\ Len(WriteCalls(w)) <= Len(results[w])
                /\ Len(calls'[w]) <= Len(calls[w]) + 1
                /\ (newCall /\ IsWrite(c)) => returned
                /\ (newCall /\ failed) => returned
                /\ (newCall /\ c.op = "get") => store' = store
                /\ (returned /\ results'[w][Len(results'[w])].err) => store' = store
       /\ store' # store
            => \E w \in Workers :
                  /\ Len(calls'[w]) = Len(calls[w]) + 1
                  /\ IsWrite(calls'[w][Len(calls'[w])])
                  /\ calls'[w][Len(calls'[w])].err = ""
      ]_vars

\* The Create of an upsert failed after the Get found nothing: ApplyUpdate
\* returned the error after these two store calls, and the store is the one
\* the message found, which held another resource.
C36_Witness ==
    /\ Served("w1")
    /\ pc["w1"] = "done"
    /\ Len(updates["w1"]) = 1
    /\ CallOps("w1") = <<"get", "create">>
    /\ calls["w1"][2].err = ErrAPI
    /\ results["w1"] = <<[changed |-> FALSE, err |-> TRUE]>>
    /\ store0["w1"] # <<>>
    /\ store = store0["w1"]

(***************************************************************************)
(* Every path of ServeDNS, with a TSIG secret dns.TsigGenerate can sign    *)
(* with and with one that is not base64, so that signing the reply fails.  *)
(* The goroutine that runs ServeDNS keeps running and each store call      *)
(* returns: every step of the handler that can be taken is taken.          *)
(***************************************************************************)
ConfigSecrets == {TSIGSecret, "not base64!"}

\* A message of another opcode, an update without a zone, one for a zone that
\* is not allowed, one without an address record, and updates that reach the
\* store (two addresses for one name, a delete, two records); each unsigned
\* and signed.
ServePaths ==
    {[bits |-> HeaderBits(0, OpcodeQuery), question |-> <<ZoneExample>>, ns |-> <<AddRouter1>>],
     [bits |-> HeaderBits(0, OpcodeUpdate), question |-> <<>>, ns |-> <<AddRouter1>>],
     [bits |-> HeaderBits(0, OpcodeUpdate), question |-> <<ZoneNotAllowed>>, ns |-> <<AddRouter1>>],
     [bits |-> HeaderBits(0, OpcodeUpdate), question |-> <<ZoneExample>>, ns |-> <<MxRouter>>],
     [bits |-> HeaderBits(0, OpcodeUpdate), question |-> <<ZoneExample>>, ns |-> <<AddRouter1>>],
     [bits |-> HeaderBits(0, OpcodeUpdate), question |-> <<ZoneExample>>, ns |-> <<AddRouter2>>],
     [bits |-> HeaderBits(0, OpcodeUpdate), question |-> <<ZoneExample>>, ns |-> <<DelRouterAny>>],
     [bits |-> HeaderBits(0, OpcodeUpdate), question |-> <<ZoneExample>>,
      ns |-> <<AddRouter1, AddNas>>]}

ServeMessages ==
    {[bits |-> p.bits, question |-> p.question, ns |-> p.ns, tsig |-> t, from |-> Sender1] :
        p \in ServePaths, t \in {NoTsig, ValidTsig}}

InitServe ==
    /\ HandlerInit
    /\ pure \in {[op |-> "config", TSIGSecret |-> s] : s \in ConfigSecrets}

NextServe ==
    \/ \E m \in ServeMessages : Receive("w1", m)
    \/ Return("w1")
    \/ GetEndpoint("w1")
    \/ UpdateEndpoint("w1")
    \/ CreateEndpoint("w1")
    \/ deleteEndpoint("w1")

SpecServe ==
    /\ InitServe
    /\ [][NextServe]_vars
    /\ WF_vars(GetEndpoint("w1"))
    /\ WF_vars(UpdateEndpoint("w1"))
    /\ WF_vars(CreateEndpoint("w1"))
    /\ WF_vars(deleteEndpoint("w1"))

\* The server handed the message of worker w to ServeDNS.
HandedToHandler(w) == cur[w] # NoMsg /\ msgAccept(cur[w].bits) = MsgAccept

\* C37: every message handed to the handler is answered with exactly one
\* reply on every path, and its processing terminates when each store call
\* returns: no reply is written while the updates are applied, exactly one
\* has been written when ServeDNS is done, and ServeDNS gets done.
C37_ExactlyOneReply ==
    /\ [](\A w \in Workers :
            HandedToHandler(w)
            => /\ pc[w] \in {"apply", "create", "update"} => replies[w] = <<>>
               /\ pc[w] = "done" => Len(replies[w]) = 1)
    /\ \A w \in Workers : (pc[w] # "idle") ~> (pc[w] = "done")

\* A signed update failed at the store and dns.TsigGenerate failed on the
\* reply: the one reply is ServerFailure, unsigned.
C37_Witness ==
    /\ pure.op = "config"
    /\ TsigGenerateFails(pure.TSIGSecret)
    /\ HandedToHandler("w1")
    /\ cur["w1"].tsig = ValidTsig
    /\ pc["w1"] = "done"
    /\ results["w1"] # <<>>
    /\ results["w1"][Len(results["w1"])].err
    /\ replies["w1"] = <<UnsignedReply(RcodeServerFailure)>>

(***************************************************************************)
(* Validator.getAlgorithmName for a validator made by NewValidator with    *)
(* each configured algorithm name: the four names of the switch, and names *)
(* it does not list (another digest, another spelling, a trailing dot, the *)
(* empty name).                                                            *)
(***************************************************************************)
AlgorithmPrefixes == {"hmac-", "HMAC-", "hmac_", ""}
AlgorithmDigests == {"sha1", "sha224", "sha256", "sha384", "sha512", "md5", ""}
AlgorithmSuffixes == {"", "."}

ConfiguredAlgorithms ==
    {p \o d \o x : p \in AlgorithmPrefixes, d \in AlgorithmDigests, x \in AlgorithmSuffixes}
    \cup {"unknown"}

InitAlgorithm ==
    /\ HandlerInit
    /\ pure \in {[op |-> "getAlgorithmName", keyName |-> k, algorithm |-> a,
                  done |-> FALSE, out |-> ""] :
                    k \in ValidatorKeyNames, a \in ConfiguredAlgorithms}

CallGetAlgorithmName ==
    /\ pure.op = "getAlgorithmName"
    /\ ~pure.done
    /\ pure' = [pure EXCEPT !.done = TRUE, !.out = getAlgorithmName(pure.algorithm)]
    /\ UNCHANGED handlerVars

NextAlgorithm == CallGetAlgorithmName

SpecAlgorithm == InitAlgorithm /\ [][NextAlgorithm]_vars

\* C38: the validator maps the configured names hmac-sha1, hmac-sha256,
\* hmac-sha512 and hmac-md5 to the TSIG algorithm identifiers of these
\* algorithms, and every other configured name to the identifier of
\* HMAC-SHA256, never to an error.
C38_AlgorithmNameMapping ==
    (pure.op = "getAlgorithmName" /\ pure.done)
    => /\ pure.out = (IF pure.algorithm = "hmac-sha1" THEN "hmac-sha1."
                      ELSE IF pure.algorithm = "hmac-sha512" THEN "hmac-sha512."
                      ELSE IF pure.algorithm = "hmac-md5" THEN "hmac-md5.sig-alg.reg.int."
                      ELSE "hmac-sha256.")
       /\ pure.out \in {HmacSHA1, HmacSHA256, HmacSHA512, HmacMD5}

\* The configured name hmac-sha384, which the switch does not list, gave the
\* identifier of HMAC-SHA256.
C38_Witness ==
    /\ pure.op = "getAlgorithmName"
    /\ pure.done
    /\ pure.algorithm = "hmac-sha384"
    /\ pure.out = HmacSHA256

====
